---- MODULE Spec2Model ----
(***************************************************************************)
(* A model of stactools.gnatsgo: the resolution of region files for a      *)
(* table (Table._file_list), the column type map (Table._table_def), the   *)
(* categorical pre-pass (Table._precompute_categoricals), the schema       *)
(* (Table._schema) and the consolidation loop (Table.concat_table).        *)
(*                                                                         *)
(* SpecFileList runs _file_list alone, for any pair of flags. Spec         *)
(* constructs Table objects for entries of TABLES and runs concat_table on *)
(* them, over an input directory whose files hold the rows GdbRows gives.  *)
(* Geometry columns (has_geom) are left out; no modelled column is a date  *)
(* or has a name starting with '__'.                                       *)
(*                                                                         *)
(* SpecTile runs tile, with create_tiles, tile_image and Tile.subset;      *)
(* SpecCreateTiles runs the loops of create_tiles step by step, for any    *)
(* int as size; SpecItem runs stac.create_item; SpecDerived runs           *)
(* create_derived_rasters over a list of mukey files.                      *)
(***************************************************************************)
EXTENDS Naturals, Integers, Sequences, FiniteSets, TLC

VARIABLES
    \* ---- Table._file_list, run one dict assignment at a time
    fl_ssurgo_only,   \* self.ssurgo_only
    fl_partition,     \* self.partition
    fl_call,          \* index of the _add_files call being executed
    fl_pos,           \* index of the next region of that call's reglist
    fl_files,         \* self.files, in insertion order
    fl_log,           \* the regions assigned so far, one entry per assignment
    fl_pc,            \* "building" | "done"
    \* ---- the input directory
    seed,             \* selects the rows the geodatabases hold
    missing,          \* the paths under in_dir that do not exist
    \* ---- process-wide state
    TABLES,           \* constants.TABLES: per table name, its 'astype' dict
    ntables,          \* number of Table objects constructed so far
    \* ---- the current Table object and the concat_table call running on it
    self,             \* the Table object's attributes
    pc,               \* "none" | "ready" | "inner" | "main" | "done" | "raised" | "failed"
    out_dir,          \* out_dir of the concat_table call
    reg_pos,          \* position of the running loop in self.files
    t,                \* the frame accumulated by the running loop
    ret,              \* what the concat_table call returned
    \* ---- what the call has done so far (observations, not program state)
    open_cols,        \* the columns _precompute_categoricals found open
    reads,            \* the files read, in order, with the loop that read them
    writes,           \* the to_parquet calls, in order
    passes,           \* passes over all region files started by the pre-pass
    ncoerce,          \* astype calls on a frame
    nschema,          \* schemas built by _schema for this Table
    \* ---- tile(in_dir, out_dir, size), one tile_image call after another
    tl_size,          \* size, in ground units
    tl_box,           \* where the rasters lie and how many pixels they have
    tl_fill,          \* selects which rasters hold data
    tl_pc,            \* "idle" | "tile" | "image" | "done"
    tl_call,          \* number of tile_image calls made so far
    tl_log,           \* the tile_image calls made, in order
    tl_tiles,         \* tiles of the running tile_image call
    tl_pos,           \* index of the next tile of that call
    tl_out,           \* the rasters the running tile_image call has written
    \* ---- stac.create_item(asset_hrefs)
    it_arg,           \* asset_hrefs as passed: a str or a list of str
    it_pc,            \* "idle" | "call" | "parquet" | "tile" | "returned" | "raised"
    it_id,            \* item_id
    it_item,          \* the Item built
    \* ---- create_tiles(left, bottom, right, top, size), one loop test or body per step
    ct_box,           \* the bounding box, as for tl_box
    ct_size,          \* size, in ground units: any int
    ct_x,             \* x
    ct_y,             \* y
    ct_tiles,         \* tiles, up to its first TilesKept entries
    ct_pc,            \* "idle" | "outer" | "inner" | "body" | "done"
    \* ---- create_derived_rasters(parquet_table, mukey_files, destination)
    dr_cols,          \* the columns of the valu1 table read, in order
    dr_files,         \* mukey_files
    dr_dest,          \* destination
    dr_valu1,         \* valu1: per column its dtype name and its values by mukey
    dr_file,          \* index of the mukey file that is open, 0 before the first
    dr_col,           \* index of the next column for that file
    dr_profile,       \* profile
    dr_layers,        \* the derived layers computed, in order, written or not
    dr_cogs,          \* cogs_produced
    dr_pc             \* "idle" | "files" | "columns" | "returned" | "raised"

fl_vars == <<fl_ssurgo_only, fl_partition, fl_call, fl_pos, fl_files, fl_log, fl_pc>>

tb_vars == <<seed, missing, TABLES, ntables, self, pc, out_dir, reg_pos, t, ret,
             open_cols, reads, writes, passes, ncoerce, nschema>>

tl_vars == <<tl_size, tl_box, tl_fill, tl_pc, tl_call, tl_log, tl_tiles, tl_pos, tl_out>>

it_vars == <<it_arg, it_pc, it_id, it_item>>

ct_vars == <<ct_box, ct_size, ct_x, ct_y, ct_tiles, ct_pc>>

dr_vars == <<dr_cols, dr_files, dr_dest, dr_valu1, dr_file, dr_col, dr_profile,
             dr_layers, dr_cogs, dr_pc>>

vars == <<fl_ssurgo_only, fl_partition, fl_call, fl_pos, fl_files, fl_log, fl_pc,
          seed, missing, TABLES, ntables, self, pc, out_dir, reg_pos, t, ret,
          open_cols, reads, writes, passes, ncoerce, nschema,
          tl_size, tl_box, tl_fill, tl_pc, tl_call, tl_log, tl_tiles, tl_pos, tl_out,
          it_arg, it_pc, it_id, it_item,
          ct_box, ct_size, ct_x, ct_y, ct_tiles, ct_pc,
          dr_cols, dr_files, dr_dest, dr_valu1, dr_file, dr_col, dr_profile,
          dr_layers, dr_cogs, dr_pc>>

(***************************************************************************)
(* Helpers on sequences.                                                   *)
(***************************************************************************)
Range(s) == {s[i] : i \in 1..Len(s)}

NoDup(s) == \A i, j \in 1..Len(s) : i # j => s[i] # s[j]

(***************************************************************************)
(* constants.py                                                            *)
(***************************************************************************)
\* PRODUCT with 'NH' listed under both products: a region that two
\* products claim.
PRODUCT_overlap ==
    [gNATSGO |->
        [CONUS |-> <<"AR", "AZ", "CA", "CO", "FL", "GA", "ID", "KY", "MI", "MN", "MS",
                     "MT", "ND", "NH", "NM", "NV", "NY", "OK", "OR", "TN", "TX", "UT",
                     "VA", "VT", "WA", "WY">>,
         NON_CONUS |-> <<"AK", "PRUSVI">>],
     gSSURGO |->
        [CONUS |-> <<"AL", "CT", "DC", "DE", "IA", "IL", "IN", "KS", "LA", "MA", "MD",
                     "ME", "MO", "NC", "NE", "NJ", "OH", "PA", "RI", "SC", "SD", "WI",
                     "NH">>,
         NON_CONUS |-> <<"AS", "FM", "GU", "HI", "MH", "MP", "PW">>]]

PRODUCT ==
    [gNATSGO |->
        [CONUS |-> <<"AR", "AZ", "CA", "CO", "FL", "GA", "ID", "KY", "MI", "MN", "MS",
                     "MT", "ND", "NH", "NM", "NV", "NY", "OK", "OR", "TN", "TX", "UT",
                     "VA", "VT", "WA", "WY">>,
         NON_CONUS |-> <<"AK", "PRUSVI">>],
     gSSURGO |->
        [CONUS |-> <<"AL", "CT", "DC", "DE", "IA", "IL", "IN", "KS", "LA", "MA", "MD",
                     "ME", "MO", "NC", "NE", "NJ", "OH", "PA", "RI", "SC", "SD", "WI",
                     "WV">>,
         NON_CONUS |-> <<"AS", "FM", "GU", "HI", "MH", "MP", "PW">>]]

\* `for prod in PRODUCT`: a dict iterates in insertion order.
ProductOrder == <<"gNATSGO", "gSSURGO">>

\* The regions PRODUCT knows, by kind.
ConusStates == UNION {Range(PRODUCT[p].CONUS) : p \in Range(ProductOrder)}

NonConusRegions == UNION {Range(PRODUCT[p].NON_CONUS) : p \in Range(ProductOrder)}

FullRegionSet == ConusStates \cup NonConusRegions

\* self.in_dir
in_dir == "in"

(***************************************************************************)
(* Table._file_list                                                        *)
(***************************************************************************)
\* os.path.join(self.in_dir, f"{prod}_{reg}.gdb")
GdbPath(prod, reg) == in_dir \o "/" \o prod \o "_" \o reg \o ".gdb"

Keys(files) == {files[i].reg : i \in 1..Len(files)}

\* files[reg] = path on an insertion-ordered dict: an existing key keeps its
\* place and takes the new value, a new key goes last.
DictSet(files, reg, path) ==
    IF reg \in Keys(files)
    THEN [i \in 1..Len(files) |->
            IF files[i].reg = reg THEN [reg |-> reg, path |-> path] ELSE files[i]]
    ELSE Append(files, [reg |-> reg, path |-> path])

\* files[reg]
DictGet(files, reg) == (CHOOSE e \in Range(files) : e.reg = reg).path

\* The ssurgo_only branch taking the non-CONUS files from each product itself.
AddFilesCalls_perProduct(ssurgo_only, partition) ==
    (IF partition
     THEN [i \in 1..Len(ProductOrder) |->
              [prod |-> IF ssurgo_only THEN "gSSURGO" ELSE ProductOrder[i],
               reglist |-> PRODUCT[ProductOrder[i]].CONUS]]
     ELSE << [prod |-> IF ssurgo_only THEN "gSSURGO" ELSE "gNATSGO",
              reglist |-> <<"CONUS">>] >>)
    \o [i \in 1..Len(ProductOrder) |->
          [prod |-> ProductOrder[i], reglist |-> PRODUCT[ProductOrder[i]].NON_CONUS]]

\* The not-ssurgo_only branch taking every file from the other product.
AddFilesCalls_swapped(ssurgo_only, partition) ==
    IF ssurgo_only
    THEN (IF partition
          THEN << [prod |-> "gSSURGO",
                   reglist |-> PRODUCT.gNATSGO.CONUS \o PRODUCT.gSSURGO.CONUS] >>
          ELSE << [prod |-> "gSSURGO", reglist |-> <<"CONUS">>] >>)
         \o << [prod |-> "gSSURGO",
                reglist |-> PRODUCT.gNATSGO.NON_CONUS \o PRODUCT.gSSURGO.NON_CONUS] >>
    ELSE (IF partition
          THEN [i \in 1..Len(ProductOrder) |->
                   [prod |-> ProductOrder[Len(ProductOrder) + 1 - i],
                    reglist |-> PRODUCT[ProductOrder[i]].CONUS]]
          ELSE << [prod |-> "gSSURGO", reglist |-> <<"CONUS">>] >>)
         \o [i \in 1..Len(ProductOrder) |->
                [prod |-> ProductOrder[Len(ProductOrder) + 1 - i],
                 reglist |-> PRODUCT[ProductOrder[i]].NON_CONUS]]

\* The ssurgo_only, partitioned branch listing only the states of gSSURGO's
\* own CONUS list.
AddFilesCalls_ownStates(ssurgo_only, partition) ==
    IF ssurgo_only
    THEN (IF partition
          THEN << [prod |-> "gSSURGO", reglist |-> PRODUCT.gSSURGO.CONUS] >>
          ELSE << [prod |-> "gSSURGO", reglist |-> <<"CONUS">>] >>)
         \o << [prod |-> "gSSURGO",
                reglist |-> PRODUCT.gNATSGO.NON_CONUS \o PRODUCT.gSSURGO.NON_CONUS] >>
    ELSE (IF partition
          THEN [i \in 1..Len(ProductOrder) |->
                   [prod |-> ProductOrder[i],
                    reglist |-> PRODUCT[ProductOrder[i]].CONUS]]
          ELSE << [prod |-> "gNATSGO", reglist |-> <<"CONUS">>] >>)
         \o [i \in 1..Len(ProductOrder) |->
                [prod |-> ProductOrder[i],
                 reglist |-> PRODUCT[ProductOrder[i]].NON_CONUS]]

\* The _add_files(prod, reglist) calls _file_list makes, in order.
AddFilesCalls(ssurgo_only, partition) ==
    IF ssurgo_only
    THEN (IF partition
          THEN << [prod |-> "gSSURGO",
                   reglist |-> PRODUCT.gNATSGO.CONUS \o PRODUCT.gSSURGO.CONUS] >>
          ELSE << [prod |-> "gSSURGO", reglist |-> <<"CONUS">>] >>)
         \o << [prod |-> "gSSURGO",
                reglist |-> PRODUCT.gNATSGO.NON_CONUS \o PRODUCT.gSSURGO.NON_CONUS] >>
    ELSE (IF partition
          THEN [i \in 1..Len(ProductOrder) |->
                   [prod |-> ProductOrder[i],
                    reglist |-> PRODUCT[ProductOrder[i]].CONUS]]
          ELSE << [prod |-> "gNATSGO", reglist |-> <<"CONUS">>] >>)
         \o [i \in 1..Len(ProductOrder) |->
                [prod |-> ProductOrder[i],
                 reglist |-> PRODUCT[ProductOrder[i]].NON_CONUS]]

\* _add_files: self.files.update({reg: path for reg in reglist}). A key the
\* dict holds keeps its place and takes the new path; the other regions are
\* appended in the order of their first occurrence in reglist.
_add_files(files, prod, reglist) ==
    LET fresh == SelectSeq([i \in 1..Len(reglist) |-> i],
                           LAMBDA i : /\ reglist[i] \notin Keys(files)
                                      /\ \A j \in 1..(i - 1) : reglist[j] # reglist[i])
    IN [i \in 1..Len(files) |->
           IF files[i].reg \in Range(reglist)
           THEN [reg |-> files[i].reg, path |-> GdbPath(prod, files[i].reg)]
           ELSE files[i]]
       \o [k \in 1..Len(fresh) |->
              [reg |-> reglist[fresh[k]], path |-> GdbPath(prod, reglist[fresh[k]])]]

RECURSIVE RunCalls(_, _)
RunCalls(files, calls) ==
    IF calls = <<>>
    THEN files
    ELSE RunCalls(_add_files(files, Head(calls).prod, Head(calls).reglist), Tail(calls))

\* The whole of _file_list: self.files after the call.
_file_list(ssurgo_only, partition) ==
    RunCalls(<<>>, AddFilesCalls(ssurgo_only, partition))

(***************************************************************************)
(* Python values. Every cell of a frame is a string: a str is itself, and  *)
(* None, True, False and the ints are written as below, so that a          *)
(* conversion is never the identity.                                       *)
(***************************************************************************)
None == "<None>"

PyTrue == "<True>"

PyFalse == "<False>"

\* int(s) for a str of digits
PyIntOf(s) == "int:" \o s

\* An empty dict.
EmptyMap == [k \in {} |-> None]

\* d[k] = v on a dict whose key order is not observed.
MapSet(d, k, v) == [x \in DOMAIN d \cup {k} |-> IF x = k THEN v ELSE d[x]]

(***************************************************************************)
(* dtypes, as the values of self.astype: a str such as 'Int16' or          *)
(* 'category', the type int, StringDtype() or CategoricalDtype(cats).      *)
(* name is what the value compares equal to as a str.                      *)
(***************************************************************************)
StrDtype(name) == [kind |-> "str", name |-> name, cats |-> <<>>]

PyInt == [kind |-> "type", name |-> "int", cats |-> <<>>]

StringDtype == [kind |-> "StringDtype", name |-> "string", cats |-> <<>>]

CategoricalDtype(cats) == [kind |-> "CategoricalDtype", name |-> "category", cats |-> cats]

\* v == 'name': a CategoricalDtype compares equal to the str 'category'.
EqStr(v, name) == v.name = name

\* isinstance(v, CategoricalDtype)
IsCategoricalDtype(v) == v.kind = "CategoricalDtype"

(***************************************************************************)
(* constants.TABLES, for the tables the model converts. has_astype tells   *)
(* whether the entry has an 'astype' key: TABLES.get(name, {}).get(        *)
(* 'astype', {}) is then that very dict, and a fresh one otherwise.        *)
(***************************************************************************)
TableNames == {"chorizon", "comonth", "component", "valu1"}

TABLES_initial ==
    [chorizon  |-> [partition |-> TRUE, ssurgo_only |-> FALSE, has_astype |-> TRUE,
                    astype |-> MapSet(EmptyMap, "hzname", StrDtype("category"))],
     comonth   |-> [partition |-> TRUE, ssurgo_only |-> FALSE, has_astype |-> FALSE,
                    astype |-> EmptyMap],
     component |-> [partition |-> FALSE, ssurgo_only |-> FALSE, has_astype |-> TRUE,
                    astype |-> MapSet(EmptyMap, "mukey", PyInt)],
     valu1     |-> [partition |-> FALSE, ssurgo_only |-> TRUE, has_astype |-> TRUE,
                    astype |-> MapSet(EmptyMap, "mukey", PyInt)]]

\* VALU1_DESCRIPTIONS[col], and VALU1_DESCRIPTIONS['table']
VALU1_DESCRIPTIONS(col) == "valu1 " \o col

(***************************************************************************)
(* What the geodatabases hold (input). A field of a layer carries what     *)
(* ogr reports (type, subtype) and its row of mdstattabcols                *)
(* (logicaldatatype, coldesc, uom) with the choices of its domain in       *)
(* mdstatdomdet.                                                           *)
(***************************************************************************)
Field(name, type, subtype, logical, choices, coldesc, uom) ==
    [name |-> name, type |-> type, subtype |-> subtype, logicaldatatype |-> logical,
     choices |-> choices, coldesc |-> coldesc, uom |-> uom]

\* f.GetLayerByName(table_name).GetLayerDefn() of the representative file.
LayerDefn(table_name) ==
    CASE table_name = "chorizon" ->
           << Field("hzname", "String", 0, "String", <<>>, "Horizon designation", ""),
              Field("hzdept_r", "Integer", 2, "Integer", <<>>, "Top depth", "centimeters"),
              Field("excavdifcl", "String", 0, "Choice", <<>>, "", ""),
              Field("obsolete", "String", 0, "Boolean", <<>>, "", "") >>
      [] table_name = "comonth" ->
           << Field("month", "String", 0, "Choice", <<"January", "February">>, "Month", ""),
              Field("monthseq", "Integer", 2, "Integer", <<>>, "", ""),
              Field("pondflag", "String", 0, "Boolean", <<>>, "Ponding", "") >>
      [] table_name = "component" ->
           << Field("mukey", "String", 0, "String", <<>>, "Mapunit key", ""),
              Field("comppct_r", "Integer", 2, "Integer", <<>>, "Percent", "percent"),
              Field("majcompflag", "String", 0, "Boolean", <<>>, "Major component", ""),
              Field("compname", "String", 0, "String", <<>>, "", "") >>
      [] OTHER ->
           << Field("mukey", "String", 0, "", <<>>, "", ""),
              Field("aws0_5", "Real", 0, "", <<>>, "", ""),
              Field("pctearthmc", "Integer", 0, "", <<>>, "", "") >>

\* mdstattabs: the tabdesc of a table, None where it has none.
TableDescription(table_name) ==
    CASE table_name = "valu1" -> VALU1_DESCRIPTIONS("table")
      [] table_name = "comonth" -> None
      [] OTHER -> "table " \o table_name

\* The keys a region->file map can have, numbered.
RegionSeq ==
    <<"CONUS">> \o PRODUCT.gNATSGO.CONUS \o PRODUCT.gSSURGO.CONUS
                \o PRODUCT.gNATSGO.NON_CONUS \o PRODUCT.gSSURGO.NON_CONUS

RegionIndex(reg) == CHOOSE k \in 1..Len(RegionSeq) : RegionSeq[k] = reg

\* The values a column takes somewhere in the input directory.
CellPool(col, sd) ==
    CASE col \in {"obsolete", "pondflag", "majcompflag"} ->
           <<"Yes", "No ", "0  ", "1  ", None, "No", "maybe">>
      [] col = "hzname" -> <<"A", "Bt", None, "C", "A">>
      [] col = "excavdifcl" -> <<None, "Low", "High">>
      [] col = "month" -> <<"January", "February", None, "Smarch">>
      [] col = "mukey" -> IF sd % 2 = 1 THEN <<"101", None, "103">> ELSE <<"101", "102", "103">>
      [] col = "aws0_5" -> <<"float:1.5", None>>
      [] col = "compname" -> <<"Alpha", None>>
      [] OTHER -> <<"int:5", None, "int:7">>

\* Number of rows of a table in the file of region number k.
NumRows(k, sd) == (k + sd) % 3

\* The rows of a layer in the file of a region: each a dict column -> cell.
GdbRows(table_name, reg, sd) ==
    LET k == RegionIndex(reg)
        cols == {f.name : f \in Range(LayerDefn(table_name))}
    IN [r \in 1..NumRows(k, sd) |->
          [c \in cols |->
              CellPool(c, sd)[((k + r + sd) % Len(CellPool(c, sd))) + 1]]]

(***************************************************************************)
(* Frames: the columns, each column's dtype name and the rows.             *)
(***************************************************************************)
NoFrame == [none |-> TRUE, cols |-> {}, dtypes |-> EmptyMap, rows |-> <<>>]

\* gpd.read_file(path, layer=table_name, ignore_fields=ignore_fields)
read_file(table_name, reg, ignore_fields, sd) ==
    LET cols == {f.name : f \in Range(LayerDefn(table_name))} \ ignore_fields
        raw == GdbRows(table_name, reg, sd)
    IN [none |-> FALSE,
        cols |-> cols,
        dtypes |-> [c \in cols |-> "object"],
        rows |-> [r \in 1..Len(raw) |-> [c \in cols |-> raw[r][c]]]]

\* append that puts the rows of tt before those of t.
FrameAppend_prepend(a, b) ==
    LET cols == a.cols \cup b.cols
        pad(row) == [c \in cols |-> IF c \in DOMAIN row THEN row[c] ELSE None]
    IN [none |-> FALSE,
        cols |-> cols,
        dtypes |-> [c \in cols |-> IF c \in a.cols THEN a.dtypes[c] ELSE b.dtypes[c]],
        rows |-> [r \in 1..Len(b.rows) |-> pad(b.rows[r])]
                 \o [r \in 1..Len(a.rows) |-> pad(a.rows[r])]]

\* t.append(tt): the rows of tt after those of t, a column one of them
\* lacks filled with null.
FrameAppend(a, b) ==
    LET cols == a.cols \cup b.cols
        pad(row) == [c \in cols |-> IF c \in DOMAIN row THEN row[c] ELSE None]
    IN [none |-> FALSE,
        cols |-> cols,
        dtypes |-> [c \in cols |-> IF c \in a.cols THEN a.dtypes[c] ELSE b.dtypes[c]],
        rows |-> [r \in 1..Len(a.rows) |-> pad(a.rows[r])]
                 \o [r \in 1..Len(b.rows) |-> pad(b.rows[r])]]

\* tt[col] = value
FrameSetColumn(frame, col, value) ==
    [none |-> FALSE,
     cols |-> frame.cols \cup {col},
     dtypes |-> MapSet(frame.dtypes, col, "object"),
     rows |-> [r \in 1..Len(frame.rows) |-> MapSet(frame.rows[r], col, value)]]

\* The remap that sends every value to true unless it is a known false.
BoolMap_truthy(v) ==
    CASE v \in {"No ", "No", "0  "} -> PyFalse
      [] v = None -> None
      [] OTHER -> PyTrue

\* The dict of the boolean remap, applied by Series.map: a value that is no
\* key of the dict becomes null.
BoolMap(v) ==
    CASE v = "Yes" -> PyTrue
      [] v = "No " -> PyFalse
      [] v = "No" -> PyFalse
      [] v = "1  " -> PyTrue
      [] v = "0  " -> PyFalse
      [] OTHER -> None

\* The columns concat_table remaps: typed 'boolean' and present in tt.
BooleanColumns(astype, frame) ==
    {k \in DOMAIN astype : EqStr(astype[k], "boolean") /\ k \in frame.cols}

\* for col in [...]: tt[col] = tt[col].map({...})
RemapBooleans(astype, frame) ==
    LET bools == BooleanColumns(astype, frame)
    IN [frame EXCEPT !.rows =
          [r \in 1..Len(frame.rows) |->
             [c \in frame.cols |->
                IF c \in bools THEN BoolMap(frame.rows[r][c]) ELSE frame.rows[r][c]]]]

\* Series.astype(dtype) on one cell: a value outside the categories of a
\* CategoricalDtype becomes null, int parses a str, and the nullable and
\* float types, 'boolean', 'category' and StringDtype keep the values the
\* model gives them (ints in range, nulls). int(None) raises; see AstypeRaises.
CoerceCell(v, dtype) ==
    CASE dtype.kind = "CategoricalDtype" ->
           IF v \in Range(dtype.cats) THEN v ELSE None
      [] dtype.kind = "type" -> IF v = None THEN None ELSE PyIntOf(v)
      [] OTHER -> v

\* DataFrame.astype(self.astype) raises for a key that is no column and for
\* a null in a column converted with int.
AstypeRaises(frame, astype) ==
    \/ \E k \in DOMAIN astype : k \notin frame.cols
    \/ \E k \in DOMAIN astype : \E r \in 1..Len(frame.rows) :
          astype[k].kind = "type" /\ frame.rows[r][k] = None

\* DataFrame.astype(self.astype)
Astype(frame, astype) ==
    [none |-> FALSE,
     cols |-> frame.cols,
     dtypes |-> [c \in frame.cols |->
                   IF c \in DOMAIN astype THEN astype[c].name ELSE frame.dtypes[c]],
     rows |-> [r \in 1..Len(frame.rows) |->
                 [c \in frame.cols |->
                    IF c \in DOMAIN astype
                    THEN CoerceCell(frame.rows[r][c], astype[c])
                    ELSE frame.rows[r][c]]]]

(***************************************************************************)
(* Table._table_def                                                        *)
(***************************************************************************)
\* all_states collected from the CONUS lists alone.
all_states_conus == PRODUCT.gNATSGO.CONUS \o PRODUCT.gSSURGO.CONUS

\* An all_states of the regions outside CONUS alone.
all_states_nonconus == PRODUCT.gNATSGO.NON_CONUS \o PRODUCT.gSSURGO.NON_CONUS

\* all_states, in the order the loop over PRODUCT collects it
all_states ==
    PRODUCT.gNATSGO.CONUS \o PRODUCT.gNATSGO.NON_CONUS
    \o PRODUCT.gSSURGO.CONUS \o PRODUCT.gSSURGO.NON_CONUS

\* Whether the loop body assigns self.astype[col] for a field without an
\* override: valu1 has no metadata rows, so only its ints and floats do.
Inferred(table_name, f) ==
    f.type \in {"Integer", "Real"} \/ table_name # "valu1"

\* The type assigned without a look at the subtype of an Integer field.
InferType_wide(f) ==
    CASE f.type = "Integer" -> StrDtype("Int32")
      [] f.type = "Real" -> StrDtype("float32")
      [] f.logicaldatatype = "Choice" ->
           IF Len(f.choices) > 0
           THEN CategoricalDtype(f.choices)
           ELSE StrDtype("category")
      [] f.logicaldatatype = "Boolean" -> StrDtype("boolean")
      [] f.logicaldatatype = "Date/Time" -> StrDtype("datetime64")
      [] OTHER -> StringDtype

\* The type the loop body assigns to such a field.
InferType(f) ==
    CASE f.type = "Integer" ->
           IF f.subtype = 2 THEN StrDtype("Int16") ELSE StrDtype("Int32")
      [] f.type = "Real" -> StrDtype("float32")
      [] f.logicaldatatype = "Choice" ->
           IF Len(f.choices) > 0
           THEN CategoricalDtype(f.choices)
           ELSE StrDtype("category")
      [] f.logicaldatatype = "Boolean" -> StrDtype("boolean")
      [] f.logicaldatatype = "Date/Time" -> StrDtype("datetime64")
      [] OTHER -> StringDtype

\* self.columns[col]['meta']
ColumnMeta(table_name, f) ==
    IF table_name # "valu1"
    THEN [k \in (IF f.coldesc # "" THEN {"description"} ELSE {})
               \cup (IF f.uom # "" THEN {"units"} ELSE {}) |->
            IF k = "description" THEN f.coldesc ELSE f.uom]
    ELSE [k \in {"description"} |-> VALU1_DESCRIPTIONS(f.name)]

\* _table_def: the astype dict after the call (astype0 is the dict it
\* starts from) and self.columns.
_table_def(table_name, partition, astype0) ==
    LET a1 == IF partition
              THEN MapSet(astype0, "state", CategoricalDtype(all_states))
              ELSE astype0
        fields == LayerDefn(table_name)
        fieldOf(col) == CHOOSE f \in Range(fields) : f.name = col
        added == {f.name : f \in {g \in Range(fields) :
                                    g.name \notin DOMAIN a1 /\ Inferred(table_name, g)}}
    IN [astype |-> [k \in DOMAIN a1 \cup added |->
                      IF k \in DOMAIN a1 THEN a1[k] ELSE InferType(fieldOf(k))],
        columns |-> [c \in {f.name : f \in Range(fields)} |->
                       [meta |-> ColumnMeta(table_name, fieldOf(c))]]]

(***************************************************************************)
(* Table._precompute_categoricals                                          *)
(***************************************************************************)
\* categoricals that keeps only what is no str: nothing is ever open.
Categoricals_never(astype) ==
    {k \in DOMAIN astype :
        EqStr(astype[k], "category") /\ IsCategoricalDtype(astype[k])
                                     /\ ~IsCategoricalDtype(astype[k])}

\* categoricals: the keys whose type is the str 'category'
Categoricals(astype) ==
    {k \in DOMAIN astype :
        EqStr(astype[k], "category") /\ ~IsCategoricalDtype(astype[k])}

\* list(tmp[c].unique()): the values of a column in order of first occurrence
Unique(frame, c) ==
    LET idx == SelectSeq([r \in 1..Len(frame.rows) |-> r],
                         LAMBDA r : \A q \in 1..(r - 1) :
                                       frame.rows[q][c] # frame.rows[r][c])
    IN [k \in 1..Len(idx) |-> frame.rows[idx[k]][c]]

\* if None in categories: categories.remove(None)
RemoveNone(categories) == SelectSeq(categories, LAMBDA v : v # None)

\* The categories taken as the column's values, the null among them.
FrozenCategories_keepNone(tmp, c) == Unique(tmp, c)

\* The categories frozen for column c from the frame of the pass.
FrozenCategories(tmp, c) == RemoveNone(Unique(tmp, c))

\* self.astype after the loop over categoricals.
FreezeCategoricals(astype, categoricals, tmp) ==
    [k \in DOMAIN astype |->
        IF k \in categoricals
        THEN CategoricalDtype(FrozenCategories(tmp, k))
        ELSE astype[k]]

(***************************************************************************)
(* Table._schema                                                           *)
(***************************************************************************)
\* self.schema = None
NoSchema == [set |-> FALSE, metadata |-> EmptyMap, fields |-> EmptyMap]

\* The schema built from a dataframe: its columns with their types, the
\* table description when there is one, the metadata of each column that has
\* some.
BuildSchema(description, columns, dataframe) ==
    [set |-> TRUE,
     metadata |-> IF description # None
                  THEN [k \in {"description"} |-> description]
                  ELSE EmptyMap,
     fields |-> [c \in dataframe.cols |->
                   [type |-> dataframe.dtypes[c],
                    meta |-> IF c \in DOMAIN columns /\ DOMAIN columns[c].meta # {}
                             THEN columns[c].meta
                             ELSE EmptyMap]]]

\* _schema that builds the schema anew on every call.
_schema_rebuild(tbl, dataframe) ==
    [schema |-> BuildSchema(tbl.description, tbl.columns, dataframe), built |-> 1]

\* _schema(dataframe): the schema returned, which is self.schema after the
\* call, and whether the call built it.
_schema(tbl, dataframe) ==
    IF tbl.schema.set
    THEN [schema |-> tbl.schema, built |-> 0]
    ELSE [schema |-> BuildSchema(tbl.description, tbl.columns, dataframe), built |-> 1]

(***************************************************************************)
(* Bounds of the model.                                                    *)
(***************************************************************************)
\* The input directories tried: seeds 0..MaxSeed.
MaxSeed == 1

\* The Table objects constructed in one run.
MaxTables == 2

(***************************************************************************)
(* The state before any Table exists.                                      *)
(***************************************************************************)
NoTable ==
    [table_name |-> "", description |-> None, ssurgo_only |-> FALSE,
     partition |-> FALSE, files |-> <<>>, astype |-> EmptyMap, aliased |-> FALSE,
     columns |-> EmptyMap, schema |-> NoSchema]

TbIdle ==
    /\ seed = 0
    /\ missing = {}
    /\ TABLES = TABLES_initial
    /\ ntables = 0
    /\ self = NoTable
    /\ pc = "none"
    /\ out_dir = None
    /\ reg_pos = 1
    /\ t = NoFrame
    /\ ret = NoFrame
    /\ open_cols = {}
    /\ reads = <<>>
    /\ writes = <<>>
    /\ passes = 0
    /\ ncoerce = 0
    /\ nschema = 0

TlIdle ==
    /\ tl_size = 1
    /\ tl_box = [left |-> 0, bottom |-> 0, width |-> 1, height |-> 1]
    /\ tl_fill = 0
    /\ tl_pc = "idle"
    /\ tl_call = 0
    /\ tl_log = <<>>
    /\ tl_tiles = <<>>
    /\ tl_pos = 1
    /\ tl_out = <<>>

ItIdle ==
    /\ it_arg = [is_str |-> FALSE, hrefs |-> <<>>]
    /\ it_pc = "idle"
    /\ it_id = <<>>
    /\ it_item = [kind |-> "none", id |-> "", assets |-> <<>>]

CtIdle ==
    /\ ct_box = [left |-> 0, bottom |-> 0, width |-> 1, height |-> 1]
    /\ ct_size = 1
    /\ ct_x = 0
    /\ ct_y = 0
    /\ ct_tiles = <<>>
    /\ ct_pc = "idle"

DrIdle ==
    /\ dr_cols = <<>>
    /\ dr_files = <<>>
    /\ dr_dest = None
    /\ dr_valu1 = EmptyMap
    /\ dr_file = 0
    /\ dr_col = 1
    /\ dr_profile = [driver |-> "", dtype |-> "", nodata |-> ""]
    /\ dr_layers = <<>>
    /\ dr_cogs = <<>>
    /\ dr_pc = "idle"

FlIdle ==
    /\ fl_ssurgo_only = FALSE
    /\ fl_partition = FALSE
    /\ fl_call = 1
    /\ fl_pos = 1
    /\ fl_files = <<>>
    /\ fl_log = <<>>
    /\ fl_pc = "done"

(***************************************************************************)
(* _file_list as a process: one dict assignment per step, for any          *)
(* combination of the two flags it reads.                                  *)
(***************************************************************************)
FlInit ==
    /\ fl_ssurgo_only \in BOOLEAN
    /\ fl_partition \in BOOLEAN
    /\ fl_call = 1
    /\ fl_pos = 1
    /\ fl_files = <<>>
    /\ fl_log = <<>>
    /\ fl_pc = "building"
    /\ TbIdle
    /\ TlIdle
    /\ ItIdle
    /\ CtIdle
    /\ DrIdle

FlCalls == AddFilesCalls(fl_ssurgo_only, fl_partition)

\* self.files[reg] = path for the next region of the current call.
FlAssign ==
    /\ fl_pc = "building"
    /\ fl_call <= Len(FlCalls)
    /\ fl_pos <= Len(FlCalls[fl_call].reglist)
    /\ LET c == FlCalls[fl_call]
           reg == c.reglist[fl_pos]
       IN /\ fl_files' = DictSet(fl_files, reg, GdbPath(c.prod, reg))
          /\ fl_log' = Append(fl_log, reg)
    /\ fl_pos' = fl_pos + 1
    /\ UNCHANGED <<fl_ssurgo_only, fl_partition, fl_call, fl_pc>>
    /\ UNCHANGED tb_vars
    /\ UNCHANGED tl_vars
    /\ UNCHANGED it_vars
    /\ UNCHANGED ct_vars
    /\ UNCHANGED dr_vars

\* The current _add_files call returns; the next one starts.
FlNextCall ==
    /\ fl_pc = "building"
    /\ fl_call <= Len(FlCalls)
    /\ fl_pos > Len(FlCalls[fl_call].reglist)
    /\ fl_call' = fl_call + 1
    /\ fl_pos' = 1
    /\ UNCHANGED <<fl_ssurgo_only, fl_partition, fl_files, fl_log, fl_pc>>
    /\ UNCHANGED tb_vars
    /\ UNCHANGED tl_vars
    /\ UNCHANGED it_vars
    /\ UNCHANGED ct_vars
    /\ UNCHANGED dr_vars

\* _file_list returns.
FlReturn ==
    /\ fl_pc = "building"
    /\ fl_call > Len(FlCalls)
    /\ fl_pc' = "done"
    /\ UNCHANGED <<fl_ssurgo_only, fl_partition, fl_call, fl_pos, fl_files, fl_log>>
    /\ UNCHANGED tb_vars
    /\ UNCHANGED tl_vars
    /\ UNCHANGED it_vars
    /\ UNCHANGED ct_vars
    /\ UNCHANGED dr_vars

FlNext == FlAssign \/ FlNextCall \/ FlReturn

SpecFileList == FlInit /\ [][FlNext]_vars

\* The stepwise run ends with the dict the function computes.
FlAgrees == fl_pc = "done" => fl_files = _file_list(fl_ssurgo_only, fl_partition)

(***************************************************************************)
(* Tables: Table(...) constructs an object, concat_table runs on it, one   *)
(* iteration of its loop over self.files per step.                         *)
(***************************************************************************)
Init ==
    /\ FlIdle
    /\ TlIdle
    /\ ItIdle
    /\ CtIdle
    /\ DrIdle
    /\ seed \in 0..MaxSeed
    /\ missing \in {{}, {GdbPath("gSSURGO", "GU")}, {GdbPath("gNATSGO", "AK")}}
    /\ TABLES = TABLES_initial
    /\ ntables = 0
    /\ self = NoTable
    /\ pc = "none"
    /\ out_dir = None
    /\ reg_pos = 1
    /\ t = NoFrame
    /\ ret = NoFrame
    /\ open_cols = {}
    /\ reads = <<>>
    /\ writes = <<>>
    /\ passes = 0
    /\ ncoerce = 0
    /\ nschema = 0

\* A gpd.read_file that opens whatever path it is given.
FileExists_always(path) == TRUE

\* Whether gpd.read_file can open the path: it raises where there is no file.
FileExists(path) == path \notin missing

\* self.astype = value. The dict is TABLES[table_name]['astype'] itself when
\* that entry has the key, so the assignment shows there too.
TablesAfter(tbl, astype) ==
    IF tbl.aliased
    THEN [TABLES EXCEPT ![tbl.table_name].astype = astype]
    ELSE TABLES

\* Table(table_name, in_dir, description): __init__ with _file_list and
\* _table_def. _table_def opens self.files['AK'] once it has set the type of
\* 'state': where that file is missing the constructor raises and there is
\* no new Table (pc = "failed"; "raised" is an error of concat_table).
NewTable(table_name) ==
    /\ pc \in {"none", "ready", "done", "raised", "failed"}
    /\ ntables < MaxTables
    /\ LET spec == TABLES[table_name]
           files == _file_list(spec.ssurgo_only, spec.partition)
           td == _table_def(table_name, spec.partition,
                            IF spec.has_astype THEN spec.astype ELSE EmptyMap)
           tbl == [table_name |-> table_name,
                   description |-> TableDescription(table_name),
                   ssurgo_only |-> spec.ssurgo_only,
                   partition |-> spec.partition,
                   files |-> files,
                   astype |-> td.astype,
                   aliased |-> spec.has_astype,
                   columns |-> td.columns,
                   schema |-> NoSchema]
       IN IF ~FileExists(DictGet(files, "AK"))
          THEN /\ pc' = "failed"
               /\ TABLES' = IF spec.partition
                             THEN TablesAfter(tbl, MapSet(spec.astype, "state",
                                                         CategoricalDtype(all_states)))
                             ELSE TABLES
               /\ UNCHANGED <<self, ntables, out_dir, reg_pos, t, ret, open_cols,
                              reads, writes, passes, ncoerce, nschema>>
          ELSE /\ pc' = "ready"
               /\ self' = tbl
               /\ TABLES' = TablesAfter(tbl, td.astype)
               /\ ntables' = ntables + 1
               /\ out_dir' = None
               /\ reg_pos' = 1
               /\ t' = NoFrame
               /\ ret' = NoFrame
               /\ open_cols' = {}
               /\ reads' = <<>>
               /\ writes' = <<>>
               /\ passes' = 0
               /\ ncoerce' = 0
               /\ nschema' = 0
    /\ UNCHANGED <<seed, missing>>
    /\ UNCHANGED fl_vars
    /\ UNCHANGED tl_vars
    /\ UNCHANGED it_vars
    /\ UNCHANGED ct_vars
    /\ UNCHANGED dr_vars

\* concat_table(out_dir=od) is called: for a partitioned table with an
\* out_dir, _precompute_categoricals starts its pass (the inner
\* concat_table) when it finds an open categorical column.
ConcatCall(od) ==
    /\ pc \in {"ready", "done"}
    /\ out_dir' = od
    /\ LET categoricals == Categoricals(self.astype)
       IN IF self.partition /\ od # None
          THEN /\ open_cols' = categoricals
               /\ pc' = IF categoricals # {} THEN "inner" ELSE "main"
               /\ passes' = IF categoricals # {} THEN 1 ELSE 0
          ELSE /\ open_cols' = {}
               /\ pc' = "main"
               /\ passes' = 0
    /\ reg_pos' = 1
    /\ t' = NoFrame
    /\ ret' = NoFrame
    /\ reads' = <<>>
    /\ writes' = <<>>
    /\ ncoerce' = 0
    /\ UNCHANGED <<seed, missing, TABLES, ntables, self, nschema>>
    /\ UNCHANGED fl_vars
    /\ UNCHANGED tl_vars
    /\ UNCHANGED it_vars
    /\ UNCHANGED ct_vars
    /\ UNCHANGED dr_vars

\* One to_parquet call, with the frame and schema it is given.
WriteEvent(kind, reg, frame, schema) ==
    [kind |-> kind, reg |-> reg, frame |-> frame, schema |-> schema,
     astype |-> self.astype]

\* One iteration of `for reg in self.files`: read the region's file, remap
\* the booleans, then write the partition or buffer the rows. The running
\* loop is the pass of the pre-pass (pc = "inner": no out_dir, the other
\* columns ignored) or that of the call itself (pc = "main").
LoopStep ==
    /\ pc \in {"inner", "main"}
    /\ reg_pos <= Len(self.files)
    /\ LET reg == self.files[reg_pos].reg
           path == self.files[reg_pos].path
           ignore_fields == IF pc = "inner"
                            THEN DOMAIN self.columns \ open_cols
                            ELSE {}
           tt == RemapBooleans(self.astype,
                               read_file(self.table_name, reg, ignore_fields, seed))
           withstate == FrameSetColumn(tt, "state", reg)
           typed == Astype(withstate, self.astype)
           sc == _schema(self, typed)
       IN IF ~FileExists(path)
          THEN /\ pc' = "raised"
               /\ UNCHANGED <<self, reg_pos, t, reads, writes, ncoerce, nschema>>
          ELSE IF pc = "main" /\ out_dir # None /\ self.partition
          THEN IF AstypeRaises(withstate, self.astype)
               THEN /\ pc' = "raised"
                    /\ reads' = Append(reads, [loop |-> pc, reg |-> reg])
                    /\ ncoerce' = ncoerce + 1
                    /\ UNCHANGED <<self, reg_pos, t, writes, nschema>>
               ELSE /\ pc' = pc
                    /\ reads' = Append(reads, [loop |-> pc, reg |-> reg])
                    /\ ncoerce' = ncoerce + 1
                    /\ self' = [self EXCEPT !.schema = sc.schema]
                    /\ nschema' = nschema + sc.built
                    /\ writes' = Append(writes,
                                        WriteEvent("partition", reg, typed, sc.schema))
                    /\ reg_pos' = reg_pos + 1
                    /\ UNCHANGED t
          ELSE /\ pc' = pc
               /\ reads' = Append(reads, [loop |-> pc, reg |-> reg])
               /\ t' = IF t.none THEN tt ELSE FrameAppend(t, tt)
               /\ reg_pos' = reg_pos + 1
               /\ UNCHANGED <<self, writes, ncoerce, nschema>>
    /\ UNCHANGED <<seed, missing, TABLES, ntables, out_dir, ret, open_cols, passes>>
    /\ UNCHANGED fl_vars
    /\ UNCHANGED tl_vars
    /\ UNCHANGED it_vars
    /\ UNCHANGED ct_vars
    /\ UNCHANGED dr_vars

\* The pass of the pre-pass returns its frame: each open column takes the
\* CategoricalDtype of its values, and the loop of the call itself starts.
\* tmp[c] raises for a column the frame lacks.
PrecomputeReturn ==
    /\ pc = "inner"
    /\ reg_pos > Len(self.files)
    /\ IF open_cols \subseteq t.cols
       THEN LET astype == FreezeCategoricals(self.astype, open_cols, t)
            IN /\ self' = [self EXCEPT !.astype = astype]
               /\ TABLES' = TablesAfter(self, astype)
               /\ pc' = "main"
               /\ reg_pos' = 1
               /\ t' = NoFrame
       ELSE /\ pc' = "raised"
            /\ UNCHANGED <<self, TABLES, reg_pos, t>>
    /\ UNCHANGED <<seed, missing, ntables, out_dir, ret, open_cols, reads, writes,
                   passes, ncoerce, nschema>>
    /\ UNCHANGED fl_vars
    /\ UNCHANGED tl_vars
    /\ UNCHANGED it_vars
    /\ UNCHANGED ct_vars
    /\ UNCHANGED dr_vars

\* A concat_table that returns its frame whatever out_dir is.
ReturnValue_always(od, frame) == frame

\* if not out_dir: return t -- and None falls off the end otherwise.
ReturnValue(od, frame) == IF od = None THEN frame ELSE NoFrame

\* After the loop of the call itself: a table that is not partitioned and
\* has an out_dir is converted and written as one dataset; without out_dir
\* the frame is returned.
ConcatReturn ==
    /\ pc = "main"
    /\ reg_pos > Len(self.files)
    /\ IF out_dir # None /\ ~self.partition
       THEN IF AstypeRaises(t, self.astype)
            THEN /\ pc' = "raised"
                 /\ ncoerce' = ncoerce + 1
                 /\ UNCHANGED <<self, t, ret, writes, nschema>>
            ELSE LET typed == Astype(t, self.astype)
                     sc == _schema(self, typed)
                 IN /\ pc' = "done"
                    /\ ncoerce' = ncoerce + 1
                    /\ t' = typed
                    /\ self' = [self EXCEPT !.schema = sc.schema]
                    /\ nschema' = nschema + sc.built
                    /\ writes' = Append(writes, WriteEvent("single", "", typed, sc.schema))
                    /\ ret' = ReturnValue(out_dir, typed)
       ELSE /\ pc' = "done"
            /\ ret' = ReturnValue(out_dir, t)
            /\ UNCHANGED <<self, t, writes, ncoerce, nschema>>
    /\ UNCHANGED <<seed, missing, TABLES, ntables, out_dir, reg_pos, open_cols, reads,
                   passes>>
    /\ UNCHANGED fl_vars
    /\ UNCHANGED tl_vars
    /\ UNCHANGED it_vars
    /\ UNCHANGED ct_vars
    /\ UNCHANGED dr_vars

Next ==
    \/ \E table_name \in TableNames : NewTable(table_name)
    \/ \E od \in {None, "out"} : ConcatCall(od)
    \/ LoopStep
    \/ PrecomputeReturn
    \/ ConcatReturn

Spec == Init /\ [][Next]_vars

(***************************************************************************)
(* Rasters (input). A coordinate is a whole number of half ground units,   *)
(* so that a raster can lie at x.5; a pixel is one ground unit wide and    *)
(* high, and size is a whole number of ground units (an int option).       *)
(***************************************************************************)
\* One ground unit, in coordinates: the pixel size of dataset.transform.
Unit == 2

\* dataset.nodata
RasterNoData == 0 - 1

Min(a, b) == IF a < b THEN a ELSE b

\* int(x) of a float: the fraction is dropped, towards zero.
PyIntTrunc(x) == IF x >= 0 THEN x \div Unit ELSE 0 - ((0 - x) \div Unit)

Digit(d) == <<"0", "1", "2", "3", "4", "5", "6", "7", "8", "9">>[d + 1]

RECURSIVE NatStr(_)
NatStr(n) == IF n < 10 THEN Digit(n) ELSE NatStr(n \div 10) \o Digit(n % 10)

\* str(n) of an int
PyStr(n) == IF n < 0 THEN "-" \o NatStr(0 - n) ELSE NatStr(n)

\* os.path.join(a, b)
PathJoin(a, b) == a \o "/" \o b

\* state.lower(), for the region codes
Lower(state) ==
    CASE state = "AK" -> "ak"
      [] state = "PRUSVI" -> "prusvi"
      [] state = "AS" -> "as"
      [] state = "FM" -> "fm"
      [] state = "GU" -> "gu"
      [] state = "HI" -> "hi"
      [] state = "MH" -> "mh"
      [] state = "MP" -> "mp"
      [] state = "PW" -> "pw"
      [] OTHER -> state

\* rasterio.open(infile) for the k-th tile_image call of a run: the bounds of
\* the raster and its pixels. Column 0 is at the left, row 0 at the top.
\* The raster holds no data, the value 5 everywhere, or 5 in every third
\* pixel, in turn.
Dataset(k, box, fill) ==
    [left |-> box.left,
     bottom |-> box.bottom,
     right |-> box.left + Unit * box.width,
     top |-> box.bottom + Unit * box.height,
     nodata |-> RasterNoData,
     pixels |-> [p \in (0..(box.width - 1)) \X (0..(box.height - 1)) |->
                   CASE (k + fill) % 3 = 0 -> RasterNoData
                     [] (k + fill) % 3 = 1 -> 5
                     [] OTHER -> IF (p[1] + 2 * p[2]) % 3 = 0 THEN 5 ELSE RasterNoData]]

(***************************************************************************)
(* create_tiles and Tile                                                   *)
(***************************************************************************)
\* Tile(left, bottom, right, top)
Tile(left, bottom, right, top) ==
    [_left |-> left, _bottom |-> bottom, _right |-> right, _top |-> top]

\* create_tiles whose tiles all have the full size.
TileAt_unclipped(x, y, right, top, size) == Tile(x, y, x + size, y + size)

\* Tile(x, y, min(x + size, right), min(y + size, top))
TileAt(x, y, right, top, size) ==
    Tile(x, y, Min(x + size, right), Min(y + size, top))

\* while y < top: one column of tiles, from y upwards.
RECURSIVE TilesColumn(_, _, _, _, _, _)
TilesColumn(x, y, right, top, size, tiles) ==
    IF y < top
    THEN TilesColumn(x, y + size, right, top, size,
                     Append(tiles, TileAt(x, y, right, top, size)))
    ELSE tiles

\* create_tiles that tiles the first column only.
create_tiles_firstColumn(left, bottom, right, top, size) ==
    TilesColumn(left, bottom, right, top, size, <<>>)

\* while x < right: the columns from x rightwards, each started at bottom.
RECURSIVE TilesFrom(_, _, _, _, _, _)
TilesFrom(x, bottom, right, top, size, tiles) ==
    IF x < right
    THEN TilesFrom(x + size, bottom, right, top, size,
                   TilesColumn(x, bottom, right, top, size, tiles))
    ELSE tiles

\* create_tiles that returns its tiles last first.
create_tiles_reversed(left, bottom, right, top, size) ==
    LET tiles == TilesFrom(left, bottom, right, top, size, <<>>)
    IN [k \in 1..Len(tiles) |-> tiles[Len(tiles) + 1 - k]]

\* create_tiles(left, bottom, right, top, size), size in coordinates
create_tiles(left, bottom, right, top, size) ==
    TilesFrom(left, bottom, right, top, size, <<>>)

\* from_bounds(tile._left, tile._bottom, tile._right, tile._top,
\* dataset.transform): the pixels of the window, and dataset.read(1, window):
\* their values, by column and row within the window.
ReadWindow(dataset, tile) ==
    LET col_off == (tile._left - dataset.left) \div Unit
        row_off == (dataset.top - tile._top) \div Unit
        width == (tile._right - tile._left) \div Unit
        height == (tile._top - tile._bottom) \div Unit
    IN [p \in (0..(width - 1)) \X (0..(height - 1)) |->
          dataset.pixels[<<col_off + p[1], row_off + p[2]>>]]

\* The emptiness test that skips a window unless all its pixels hold data.
WindowEmpty_any(td, nodata) == \E p \in DOMAIN td : td[p] = nodata

\* The emptiness test that never finds a window empty.
WindowEmpty_never(td, nodata) == FALSE

\* np.all(td == dataset.nodata)
WindowEmpty(td, nodata) == \A p \in DOMAIN td : td[p] = nodata

\* tile_id with the bounds in the order left, bottom, right, top.
TileId_lbrt(tile, base) ==
    base \o "_" \o PyStr(PyIntTrunc(tile._left)) \o "_" \o PyStr(PyIntTrunc(tile._bottom))
         \o "_" \o PyStr(PyIntTrunc(tile._right)) \o "_" \o PyStr(PyIntTrunc(tile._top))

\* tile_id of Tile.subset
TileId(tile, base) ==
    base \o "_" \o PyStr(PyIntTrunc(tile._left)) \o "_" \o PyStr(PyIntTrunc(tile._top))
         \o "_" \o PyStr(PyIntTrunc(tile._right)) \o "_" \o PyStr(PyIntTrunc(tile._bottom))

\* Tile.subset(infile, outdir, base): the directory made, the file cogify
\* writes and its -projwin arguments; the raster written holds the pixels of
\* the source within them.
subset(tile, dataset, infile, outdir, base) ==
    [infile |-> infile,
     dir |-> PathJoin(outdir, TileId(tile, base)),
     name |-> "mukey_" \o TileId(tile, base) \o ".tif",
     outfile |-> PathJoin(PathJoin(outdir, TileId(tile, base)),
                          "mukey_" \o TileId(tile, base) \o ".tif"),
     projwin |-> <<tile._left, tile._top, tile._right, tile._bottom>>,
     data |-> ReadWindow(dataset, tile)]

\* The loop of tile_image over a list of tiles: the rasters it writes, one
\* for each tile whose window is not all nodata, in the order of the list.
tile_image_outputs(tiles, dataset, infile, outdir, base) ==
    LET kept == SelectSeq(tiles, LAMBDA tile :
                            ~WindowEmpty(ReadWindow(dataset, tile), dataset.nodata))
    IN [k \in 1..Len(kept) |-> subset(kept[k], dataset, infile, outdir, base)]

(***************************************************************************)
(* tile and create_conus_vrt                                               *)
(***************************************************************************)
\* os.path.join(in_dir, f"{prod}_{state}.tif")
TifPath(prod, state) == PathJoin(in_dir, prod \o "_" \o state \o ".tif")

\* os.path.join(tmpdir, 'mukey.vrt')
vrt_file == PathJoin("tmp", "mukey.vrt")

\* create_conus_vrt with the NON_CONUS rasters too.
create_conus_vrt_all ==
    [i \in 1..Len(PRODUCT.gNATSGO.CONUS) |-> TifPath("gNATSGO", PRODUCT.gNATSGO.CONUS[i])]
    \o [i \in 1..Len(PRODUCT.gNATSGO.NON_CONUS) |->
           TifPath("gNATSGO", PRODUCT.gNATSGO.NON_CONUS[i])]
    \o [i \in 1..Len(PRODUCT.gSSURGO.CONUS) |-> TifPath("gSSURGO", PRODUCT.gSSURGO.CONUS[i])]
    \o [i \in 1..Len(PRODUCT.gSSURGO.NON_CONUS) |->
           TifPath("gSSURGO", PRODUCT.gSSURGO.NON_CONUS[i])]

\* create_conus_vrt: file_list, the sources gdal.BuildVRT is given
create_conus_vrt ==
    [i \in 1..Len(PRODUCT.gNATSGO.CONUS) |-> TifPath("gNATSGO", PRODUCT.gNATSGO.CONUS[i])]
    \o [i \in 1..Len(PRODUCT.gSSURGO.CONUS) |-> TifPath("gSSURGO", PRODUCT.gSSURGO.CONUS[i])]

\* The (prod, state) pairs of the loops over PRODUCT and its NON_CONUS lists.
NonConusCalls ==
    [i \in 1..Len(PRODUCT.gNATSGO.NON_CONUS) |->
        [prod |-> "gNATSGO", state |-> PRODUCT.gNATSGO.NON_CONUS[i]]]
    \o [i \in 1..Len(PRODUCT.gSSURGO.NON_CONUS) |->
        [prod |-> "gSSURGO", state |-> PRODUCT.gSSURGO.NON_CONUS[i]]]

\* out_dir of tile
tile_out_dir == "tiles"

(***************************************************************************)
(* Bounds of the rasters tiled.                                            *)
(***************************************************************************)
\* size ranges over 1..MaxTileSize ground units.
MaxTileSize == 3

\* A raster has 1..MaxWidth columns and 1..MaxHeight rows of pixels.
MaxWidth == 3

MaxHeight == 3

\* The coordinates tried for the left and bottom edges: -1.5, -0.5, 1 and 0.5, 0.
Lefts == {0 - 3, 0 - 1, 2}

Bottoms == {1, 0}

(***************************************************************************)
(* tile(in_dir, out_dir, size) as a process: one tile_image call after     *)
(* another, one tile of the running call per step.                         *)
(***************************************************************************)
TlInit ==
    /\ tl_size \in 1..MaxTileSize
    /\ tl_box \in [left : Lefts, bottom : Bottoms, width : 1..MaxWidth, height : 1..MaxHeight]
    /\ tl_fill \in 0..2
    /\ tl_pc = "tile"
    /\ tl_call = 0
    /\ tl_log = <<>>
    /\ tl_tiles = <<>>
    /\ tl_pos = 1
    /\ tl_out = <<>>
    /\ FlIdle
    /\ TbIdle
    /\ ItIdle
    /\ CtIdle
    /\ DrIdle

\* The dataset the running tile_image call has open.
TlDataset == Dataset(tl_call, tl_box, tl_fill)

\* tile_image(infile, outdir, size, basename) is entered: the dataset is
\* opened and create_tiles gives the tiles of its bounds.
TileImageEnter(infile, sources, basename) ==
    LET dataset == Dataset(tl_call + 1, tl_box, tl_fill)
    IN /\ tl_call' = tl_call + 1
       /\ tl_log' = Append(tl_log, [infile |-> infile, sources |-> sources,
                                    base |-> basename, size |-> tl_size])
       /\ tl_tiles' = create_tiles(dataset.left, dataset.bottom, dataset.right,
                                   dataset.top, Unit * tl_size)
       /\ tl_pos' = 1
       /\ tl_out' = <<>>
       /\ tl_pc' = "image"

\* The next iteration of the loops over the NON_CONUS lists: tile_image on
\* the raster of that region.
TileNonConus ==
    /\ tl_pc = "tile"
    /\ tl_call < Len(NonConusCalls)
    /\ LET c == NonConusCalls[tl_call + 1]
       IN TileImageEnter(TifPath(c.prod, c.state), <<TifPath(c.prod, c.state)>>,
                         Lower(c.state))
    /\ UNCHANGED <<tl_size, tl_box, tl_fill>>
    /\ UNCHANGED fl_vars
    /\ UNCHANGED tb_vars
    /\ UNCHANGED it_vars
    /\ UNCHANGED ct_vars
    /\ UNCHANGED dr_vars

\* After the loops: create_conus_vrt builds the mosaic, tile_image tiles it.
TileConus ==
    /\ tl_pc = "tile"
    /\ tl_call = Len(NonConusCalls)
    /\ TileImageEnter(vrt_file, create_conus_vrt, "conus")
    /\ UNCHANGED <<tl_size, tl_box, tl_fill>>
    /\ UNCHANGED fl_vars
    /\ UNCHANGED tb_vars
    /\ UNCHANGED it_vars
    /\ UNCHANGED ct_vars
    /\ UNCHANGED dr_vars

\* One iteration of `for tile in tiles`: read the window, and write the
\* tile unless every pixel is nodata.
TileImageStep ==
    /\ tl_pc = "image"
    /\ tl_pos <= Len(tl_tiles)
    /\ LET tile == tl_tiles[tl_pos]
           td == ReadWindow(TlDataset, tile)
           call == tl_log[tl_call]
       IN tl_out' = IF ~WindowEmpty(td, TlDataset.nodata)
                    THEN Append(tl_out, subset(tile, TlDataset, call.infile,
                                               tile_out_dir, call.base))
                    ELSE tl_out
    /\ tl_pos' = tl_pos + 1
    /\ UNCHANGED <<tl_size, tl_box, tl_fill, tl_pc, tl_call, tl_log, tl_tiles>>
    /\ UNCHANGED fl_vars
    /\ UNCHANGED tb_vars
    /\ UNCHANGED it_vars
    /\ UNCHANGED ct_vars
    /\ UNCHANGED dr_vars

\* tile_image returns; tile returns after the call on the mosaic.
TileImageReturn ==
    /\ tl_pc = "image"
    /\ tl_pos > Len(tl_tiles)
    /\ tl_pc' = IF tl_call > Len(NonConusCalls) THEN "done" ELSE "tile"
    /\ UNCHANGED <<tl_size, tl_box, tl_fill, tl_call, tl_log, tl_tiles, tl_pos, tl_out>>
    /\ UNCHANGED fl_vars
    /\ UNCHANGED tb_vars
    /\ UNCHANGED it_vars
    /\ UNCHANGED ct_vars
    /\ UNCHANGED dr_vars

TlNext == TileNonConus \/ TileConus \/ TileImageStep \/ TileImageReturn

SpecTile == TlInit /\ [][TlNext]_vars

(***************************************************************************)
(* create_tiles as a process: one loop test or one loop body per step, for *)
(* any int as size (--size takes any int, and neither tile_command, tile,  *)
(* tile_image nor create_tiles looks at it).                               *)
(***************************************************************************)
\* The sizes tried, in ground units.
Sizes == (0 - 1)..MaxTileSize

\* tiles is kept up to this many entries, which is every tile of a raster
\* tried; a longer list only takes more memory.
TilesKept == MaxWidth * MaxHeight

\* The coordinate below which a negative size no longer moves y: a float
\* far enough from zero absorbs the addend.
CoordFloor == 8

\* v += d on a float
FloatAdd(v, d) == IF v + d < 0 - CoordFloor THEN v ELSE v + d

\* tiles.append(tile)
TilesAppend(tiles, tile) == IF Len(tiles) < TilesKept THEN Append(tiles, tile) ELSE tiles

CtRight == ct_box.left + Unit * ct_box.width

CtTop == ct_box.bottom + Unit * ct_box.height

CtInit ==
    /\ ct_box \in [left : Lefts, bottom : Bottoms, width : 1..MaxWidth, height : 1..MaxHeight]
    /\ ct_size \in Sizes
    /\ ct_x = ct_box.left
    /\ ct_y = ct_box.bottom
    /\ ct_tiles = <<>>
    /\ ct_pc = "outer"
    /\ FlIdle
    /\ TbIdle
    /\ TlIdle
    /\ ItIdle
    /\ DrIdle

\* while x < right: into the inner loop, or return tiles
CtOuter ==
    /\ ct_pc = "outer"
    /\ ct_pc' = IF ct_x < CtRight THEN "inner" ELSE "done"
    /\ UNCHANGED <<ct_box, ct_size, ct_x, ct_y, ct_tiles>>
    /\ UNCHANGED <<fl_vars, tb_vars, tl_vars, it_vars, dr_vars>>

\* while y < top: into the body, or x += size; y = bottom
CtInner ==
    /\ ct_pc = "inner"
    /\ IF ct_y < CtTop
       THEN /\ ct_pc' = "body"
            /\ UNCHANGED <<ct_x, ct_y>>
       ELSE /\ ct_pc' = "outer"
            /\ ct_x' = FloatAdd(ct_x, Unit * ct_size)
            /\ ct_y' = ct_box.bottom
    /\ UNCHANGED <<ct_box, ct_size, ct_tiles>>
    /\ UNCHANGED <<fl_vars, tb_vars, tl_vars, it_vars, dr_vars>>

\* tile = Tile(...); tiles.append(tile); y += size
CtBody ==
    /\ ct_pc = "body"
    /\ ct_tiles' = TilesAppend(ct_tiles, TileAt(ct_x, ct_y, CtRight, CtTop, Unit * ct_size))
    /\ ct_y' = FloatAdd(ct_y, Unit * ct_size)
    /\ ct_pc' = "inner"
    /\ UNCHANGED <<ct_box, ct_size, ct_x>>
    /\ UNCHANGED <<fl_vars, tb_vars, tl_vars, it_vars, dr_vars>>

CtNext == CtOuter \/ CtInner \/ CtBody

\* The call keeps running until it returns.
SpecCreateTiles == CtInit /\ [][CtNext]_vars /\ WF_vars(CtNext)

\* For a positive size the run ends with the list the function computes.
CtAgrees ==
    (ct_pc = "done" /\ ct_size > 0) =>
       ct_tiles = create_tiles(ct_box.left, ct_box.bottom, CtRight, CtTop, Unit * ct_size)

(***************************************************************************)
(* stac.create_item. A str is a sequence of pieces: the characters '/',    *)
(* '_' and '.', and runs of other characters such as 'ak' and 'parquet'.   *)
(***************************************************************************)
\* The pieces the hrefs tried are made of.
HrefPieces == {"/", "_", ".", "ak", "parquet"}

\* The str a sequence of pieces stands for.
RECURSIVE Text(_)
Text(s) == IF s = <<>> THEN "" ELSE Head(s) \o Text(Tail(s))

\* s.rfind(c), counted from 1; 0 when c is not in s
LastIndexOf(s, c) ==
    IF \E k \in 1..Len(s) : s[k] = c
    THEN CHOOSE k \in 1..Len(s) : s[k] = c /\ \A m \in (k + 1)..Len(s) : s[m] # c
    ELSE 0

\* s.find(c), counted from 1; 0 when c is not in s
FirstIndexOf(s, c) ==
    IF \E k \in 1..Len(s) : s[k] = c
    THEN CHOOSE k \in 1..Len(s) : s[k] = c /\ \A m \in 1..(k - 1) : s[m] # c
    ELSE 0

\* os.path.basename(p): what follows the last '/'
basename(p) == SubSeq(p, LastIndexOf(p, "/") + 1, Len(p))

\* os.path.splitext(p) of a p without '/': split at the last '.', unless
\* only dots come before it.
splitext(p) ==
    LET dot == LastIndexOf(p, ".")
    IN IF dot > 0 /\ \E k \in 1..(dot - 1) : p[k] # "."
       THEN <<SubSeq(p, 1, dot - 1), SubSeq(p, dot, Len(p))>>
       ELSE <<p, <<>> >>

\* s.split('_', 1): one part when s has no '_', else what is before the first
\* '_' and what is after it.
split_once(s) ==
    LET k == FirstIndexOf(s, "_")
    IN IF k = 0
       THEN << s >>
       ELSE <<SubSeq(s, 1, k - 1), SubSeq(s, k + 1, Len(s))>>

\* The test that lets two parquet hrefs through.
TooManyTables_three(asset_hrefs) == Len(asset_hrefs) > 2

\* if len(asset_hrefs) > 1
TooManyTables(asset_hrefs) == Len(asset_hrefs) > 1

\* No Item yet.
NoItem == [kind |-> "none", id |-> "", assets |-> <<>>]

\* Item(id=table_name, ...) with its 'data' asset, as
\* _create_item_from_parquet returns it.
TableItem(table_name, asset_href) ==
    [kind |-> "table", id |-> Text(table_name),
     assets |-> << [title |-> "data", href |-> Text(asset_href)] >>]

\* Item(id=tile_id, ...) with one asset per href, titled by what precedes
\* the first '_' of the href's basename, as _create_item_from_tile returns it.
TileItem(tile_id, asset_hrefs) ==
    [kind |-> "tile", id |-> Text(tile_id),
     assets |-> [k \in 1..Len(asset_hrefs) |->
                   [title |-> Text(split_once(basename(asset_hrefs[k]))[1]),
                    href |-> Text(asset_hrefs[k])]]]

(***************************************************************************)
(* Bounds of the hrefs tried.                                              *)
(***************************************************************************)
\* The first href has 1..MaxHrefLen pieces.
MaxHrefLen == 4

\* asset_hrefs has 1..MaxHrefs hrefs.
MaxHrefs == 2

\* The hrefs that can follow the first.
MoreHrefs == {<<"ak", "_", "ak", ".", "ak">>, <<"ak", ".", "ak">>}

\* The hrefs that can come first.
FirstHrefs == UNION {[1..n -> HrefPieces] : n \in 1..MaxHrefLen}

(***************************************************************************)
(* create_item(asset_hrefs) as a process: the dispatch on the first href,  *)
(* then the function that builds the item.                                 *)
(***************************************************************************)
ItInit ==
    /\ it_arg \in [is_str : {TRUE}, hrefs : {<<h>> : h \in FirstHrefs}]
             \cup {[is_str |-> FALSE, hrefs |-> <<h>> \o more] :
                      h \in FirstHrefs,
                      more \in UNION {[1..n -> MoreHrefs] : n \in 0..(MaxHrefs - 1)}}
    /\ it_pc = "call"
    /\ it_id = <<>>
    /\ it_item = NoItem
    /\ FlIdle
    /\ TbIdle
    /\ TlIdle
    /\ CtIdle
    /\ DrIdle

\* create_item up to the call that builds the item: a str becomes a list of
\* one, the first href gives item_id and extension, and the branch is taken.
\* Two or more hrefs with a parquet raise; unpacking the split raises when
\* item_id has no '_'.
CreateItemDispatch ==
    /\ it_pc = "call"
    /\ LET asset_hrefs == it_arg.hrefs
           parts == splitext(basename(asset_hrefs[1]))
           item_id == parts[1]
           extension == parts[2]
       IN IF extension = <<".", "parquet">>
          THEN IF TooManyTables(asset_hrefs)
               THEN /\ it_pc' = "raised"
                    /\ it_id' = item_id
               ELSE /\ it_pc' = "parquet"
                    /\ it_id' = item_id
          ELSE IF Len(split_once(item_id)) = 2
               THEN /\ it_pc' = "tile"
                    /\ it_id' = split_once(item_id)[2]
               ELSE /\ it_pc' = "raised"
                    /\ it_id' = item_id
    /\ UNCHANGED <<it_arg, it_item>>
    /\ UNCHANGED fl_vars
    /\ UNCHANGED tb_vars
    /\ UNCHANGED tl_vars
    /\ UNCHANGED ct_vars
    /\ UNCHANGED dr_vars

\* _create_item_from_parquet(item_id, asset_hrefs[0], storage_options) on a
\* readable table.
CreateItemFromParquet ==
    /\ it_pc = "parquet"
    /\ it_item' = TableItem(it_id, it_arg.hrefs[1])
    /\ it_pc' = "returned"
    /\ UNCHANGED <<it_arg, it_id>>
    /\ UNCHANGED fl_vars
    /\ UNCHANGED tb_vars
    /\ UNCHANGED tl_vars
    /\ UNCHANGED ct_vars
    /\ UNCHANGED dr_vars

\* _create_item_from_tile(item_id, asset_hrefs, read_href_modifier) on
\* readable rasters: the Item is made, then one asset per href; unpacking
\* the split of a basename without '_' raises.
CreateItemFromTile ==
    /\ it_pc = "tile"
    /\ IF \A k \in 1..Len(it_arg.hrefs) : Len(split_once(basename(it_arg.hrefs[k]))) = 2
       THEN /\ it_item' = TileItem(it_id, it_arg.hrefs)
            /\ it_pc' = "returned"
       ELSE /\ it_item' = NoItem
            /\ it_pc' = "raised"
    /\ UNCHANGED <<it_arg, it_id>>
    /\ UNCHANGED fl_vars
    /\ UNCHANGED tb_vars
    /\ UNCHANGED tl_vars
    /\ UNCHANGED ct_vars
    /\ UNCHANGED dr_vars

ItNext == CreateItemDispatch \/ CreateItemFromParquet \/ CreateItemFromTile

SpecItem == ItInit /\ [][ItNext]_vars

(***************************************************************************)
(* create_derived_rasters(parquet_table, mukey_files, destination). A      *)
(* number is the str of its literal; a path and a column name are          *)
(* sequences of pieces, as the hrefs above; a raster is the sequence of    *)
(* its pixels. The mukeys of valu1 are distinct, so that groupby(level=0)  *)
(* .first() has one row per mukey to take.                                 *)
(***************************************************************************)
\* -9999, of fillna(-9999) and nodata=-9999
IntFill == "-9999"

\* The null of a float32 column, and that of an Int16 column.
NaN == "nan"

NA == "<NA>"

\* f.profile of a mukey raster (input): its nodata is not -9999.
MukeyProfile == [driver |-> "GTiff", dtype |-> "int32", nodata |-> "2147483647"]

\* The valu1 table pd.read_parquet gives (input), 'mukey' being the index:
\* per column its dtype name and its values by mukey.
Valu1Table ==
    [pctearthmc |-> [dtype |-> "Int16",
                     values |-> [m \in {"m1", "m2"} |-> IF m = "m1" THEN "5" ELSE NA]],
     aws0_5     |-> [dtype |-> "float32",
                     values |-> [m \in {"m1", "m2"} |-> IF m = "m1" THEN "1.5" ELSE NaN]],
     aws0_20    |-> [dtype |-> "float32",
                     values |-> [m \in {"m1", "m2"} |-> IF m = "m1" THEN NaN ELSE "2.5"]],
     musumcpct  |-> [dtype |-> "Int32",
                     values |-> [m \in {"m1", "m2"} |-> "100"]]]

\* The name of a column, in pieces.
ColumnPieces(col) ==
    CASE col = "aws0_5" -> <<"aws0", "_", "5">>
      [] col = "aws0_20" -> <<"aws0", "_", "20">>
      [] OTHER -> << col >>

\* The mukey files there are (input): the path as passed, with a query where
\* it is a signed href, and the mukeys of the pixels; "m0" has no row in valu1.
MukeyFiles ==
    << [path |-> <<"tiles", "/", "mukey", "_", "ak", "_", "0", ".", "tif">>,
        pixels |-> <<"m1", "m2">>],
       [path |-> <<"tiles", "/", "mukey", "_", "hi", "_", "0", ".", "tif", "?", "sig">>,
        pixels |-> <<"m2", "m0">>],
       [path |-> <<"tiles", "/", "mukey", "_", "gu", "_", "0", ".", "tif">>,
        pixels |-> <<"m0", "m0">>] >>

\* mukey_file.split('?', 1)[0] where it has a '?', mukey_file otherwise
StripQuery(mukey_file) ==
    LET q == CHOOSE k \in 0..Len(mukey_file) :
                /\ k = 0 \/ mukey_file[k] = "?"
                /\ \A m \in 1..Len(mukey_file) : mukey_file[m] = "?" => (k # 0 /\ k <= m)
    IN IF q = 0 THEN mukey_file ELSE SubSeq(mukey_file, 1, q - 1)

\* os.path.split(p): what is before the last '/', and what is after it
PathSplit(p) ==
    LET slash == LastIndexOf(p, "/")
    IN <<SubSeq(p, 1, slash - 1), SubSeq(p, slash + 1, Len(p))>>

\* col.replace('_', '-')
Dashed(col) == [k \in 1..Len(col) |-> IF col[k] = "_" THEN "-" ELSE col[k]]

\* os.path.join(out_dir, f"{col.replace('_', '-')}_{suffix}")
OutFile(dir, col, suffix) ==
    (IF dir = <<>> THEN "" ELSE Text(dir) \o "/")
       \o Text(Dashed(ColumnPieces(col))) \o "_" \o Text(suffix)

\* The branch a column takes by valu1[col].dtype.name.
Classify(dtype_name) ==
    CASE dtype_name = "Int16" -> "int16"
      [] dtype_name = "float32" -> "float32"
      [] OTHER -> "unsupported"

\* valu1[col].fillna(-9999).astype('int16')
FillnaInt16(column) ==
    [dtype |-> "int16",
     values |-> [m \in DOMAIN column.values |->
                   IF column.values[m] = NA THEN IntFill ELSE column.values[m]]]

\* d: the value of the column at the mukey of each pixel, the fill value
\* where valu1 has no such mukey, and for a float32 column nodata instead of
\* NaN.
DerivedLayer(column, pixels, nodata) ==
    [p \in 1..Len(pixels) |->
        LET v == IF pixels[p] \in DOMAIN column.values
                 THEN column.values[pixels[p]]
                 ELSE nodata
        IN IF column.dtype = "float32" /\ v = NaN THEN nodata ELSE v]

\* A test that skips a layer with any pixel of nodata.
AllNoData_any(d, nodata) == \E p \in 1..Len(d) : d[p] = nodata

\* (d == profile['nodata']).all()
AllNoData(d, nodata) == \A p \in 1..Len(d) : d[p] = nodata

(***************************************************************************)
(* Bounds of the calls tried.                                              *)
(***************************************************************************)
\* valu1 has 1..MaxCols columns beside mukey.
MaxCols == 3

\* mukey_files has 1..MaxFiles files.
MaxFiles == 2

\* The column orders and the file lists tried: nothing twice.
ColumnOrders ==
    {c \in UNION {[1..n -> DOMAIN Valu1Table] : n \in 1..MaxCols} : NoDup(c)}

FileLists ==
    {f \in UNION {[1..n -> 1..Len(MukeyFiles)] : n \in 1..MaxFiles} : NoDup(f)}

(***************************************************************************)
(* create_derived_rasters as a process: one file opened or one column of   *)
(* the open file per step.                                                 *)
(***************************************************************************)
DrInit ==
    /\ dr_cols \in ColumnOrders
    /\ dr_files \in FileLists
    /\ dr_dest \in {None, "cogs"}
    /\ dr_valu1 = [c \in Range(dr_cols) |-> Valu1Table[c]]
    /\ dr_file = 0
    /\ dr_col = 1
    /\ dr_profile = [driver |-> "", dtype |-> "", nodata |-> ""]
    /\ dr_layers = <<>>
    /\ dr_cogs = <<>>
    /\ dr_pc = "files"
    /\ FlIdle
    /\ TbIdle
    /\ TlIdle
    /\ ItIdle
    /\ CtIdle

\* The mukey file that is open.
DrMukeyFile == MukeyFiles[dr_files[dr_file]]

\* file_name, of os.path.split(mf_tmp)
DrFileName == PathSplit(StripQuery(DrMukeyFile.path))[2]

\* out_dir = destination if destination is not None else in_dir
DrOutDir ==
    IF dr_dest # None THEN << dr_dest >> ELSE PathSplit(StripQuery(DrMukeyFile.path))[1]

\* The next iteration of `for mukey_file in mukey_files`, up to the loop
\* over the columns: unpacking the split of a name without '_' raises, and
\* the profile is that of the file.
DrOpenFile ==
    /\ dr_pc = "files"
    /\ dr_file < Len(dr_files)
    /\ dr_file' = dr_file + 1
    /\ LET path == MukeyFiles[dr_files[dr_file + 1]].path
       IN IF Len(split_once(PathSplit(StripQuery(path))[2])) = 2
          THEN /\ dr_pc' = "columns"
               /\ dr_profile' = [MukeyProfile EXCEPT !.driver = "COG"]
          ELSE /\ dr_pc' = "raised"
               /\ UNCHANGED dr_profile
    /\ dr_col' = 1
    /\ UNCHANGED <<dr_cols, dr_files, dr_dest, dr_valu1, dr_layers, dr_cogs>>
    /\ UNCHANGED <<fl_vars, tb_vars, tl_vars, it_vars, ct_vars>>

\* One iteration of `for col in valu1.columns` for the open file.
DrColumn ==
    /\ dr_pc = "columns"
    /\ dr_col <= Len(dr_cols)
    /\ LET col == dr_cols[dr_col]
           kind == Classify(dr_valu1[col].dtype)
           column == IF kind = "int16" THEN FillnaInt16(dr_valu1[col]) ELSE dr_valu1[col]
           profile == IF kind = "int16"
                      THEN [dr_profile EXCEPT !.dtype = "int16", !.nodata = IntFill]
                      ELSE [dr_profile EXCEPT !.dtype = "float32"]
           out_file == OutFile(DrOutDir, col, split_once(DrFileName)[2])
           d == DerivedLayer(column, DrMukeyFile.pixels, profile.nodata)
           skipped == AllNoData(d, profile.nodata)
       IN IF kind = "unsupported"
          THEN /\ dr_pc' = "raised"
               /\ UNCHANGED <<dr_valu1, dr_profile, dr_layers, dr_cogs, dr_col>>
          ELSE /\ dr_pc' = "columns"
               /\ dr_valu1' = [dr_valu1 EXCEPT ![col] = column]
               /\ dr_profile' = profile
               /\ dr_layers' = Append(dr_layers,
                                      [file |-> dr_file, col |-> col, kind |-> kind,
                                       out_file |-> out_file, profile |-> profile,
                                       d |-> d, written |-> ~skipped,
                                       description |-> VALU1_DESCRIPTIONS(col)])
               /\ dr_cogs' = IF skipped THEN dr_cogs ELSE Append(dr_cogs, out_file)
               /\ dr_col' = dr_col + 1
    /\ UNCHANGED <<dr_cols, dr_files, dr_dest, dr_file>>
    /\ UNCHANGED <<fl_vars, tb_vars, tl_vars, it_vars, ct_vars>>

\* The loop over the columns ends and the file is closed.
DrCloseFile ==
    /\ dr_pc = "columns"
    /\ dr_col > Len(dr_cols)
    /\ dr_pc' = "files"
    /\ UNCHANGED <<dr_cols, dr_files, dr_dest, dr_valu1, dr_file, dr_col, dr_profile,
                   dr_layers, dr_cogs>>
    /\ UNCHANGED <<fl_vars, tb_vars, tl_vars, it_vars, ct_vars>>

\* return cogs_produced
DrReturn ==
    /\ dr_pc = "files"
    /\ dr_file = Len(dr_files)
    /\ dr_pc' = "returned"
    /\ UNCHANGED <<dr_cols, dr_files, dr_dest, dr_valu1, dr_file, dr_col, dr_profile,
                   dr_layers, dr_cogs>>
    /\ UNCHANGED <<fl_vars, tb_vars, tl_vars, it_vars, ct_vars>>

DrNext == DrOpenFile \/ DrColumn \/ DrCloseFile \/ DrReturn

SpecDerived == DrInit /\ [][DrNext]_vars

(***************************************************************************)
(* Claims about Table._file_list, checked under SpecFileList.              *)
(***************************************************************************)
\* The CONUS entries of the map: the states and the bulk key 'CONUS'.
FlConusKeys == Keys(fl_files) \cap (ConusStates \cup {"CONUS"})

\* C1 as stated: for every combination of the flags the finished map's keys
\* are the full region set (all CONUS states and all territories), it has as
\* many entries as that set, and no region is assigned twice while it is built.
C1_CoversFullRegionSet ==
    /\ NoDup(fl_log)
    /\ fl_pc = "done" =>
          /\ Keys(fl_files) = FullRegionSet
          /\ Len(fl_files) = Cardinality(FullRegionSet)

\* C1 amended: no region is assigned twice while the map is built; the
\* finished map of a partitioned table has exactly the full region set as its
\* keys, and that of a table that is not partitioned has the key 'CONUS' in
\* place of the CONUS states, with every territory.
C1_CoversRegionsOnce ==
    /\ NoDup(fl_log)
    /\ Len(fl_files) = Cardinality(Keys(fl_files))
    /\ (fl_pc = "done" /\ fl_partition) =>
          /\ Keys(fl_files) = FullRegionSet
          /\ Len(fl_files) = Cardinality(FullRegionSet)
    /\ (fl_pc = "done" /\ ~fl_partition) =>
          /\ Keys(fl_files) = {"CONUS"} \cup NonConusRegions
          /\ Len(fl_files) = 1 + Cardinality(NonConusRegions)

C1_Witness ==
    /\ fl_pc = "done"
    /\ fl_partition
    /\ ~fl_ssurgo_only
    /\ {"NH", "WV", "AK", "PW"} \subseteq Keys(fl_files)

\* C2: for a ssurgo_only table every path of the map is the gSSURGO file of
\* its region, the territories of both products are keys, and without
\* partitioning the only CONUS key is 'CONUS'.
C2_SsurgoOnlyFiles ==
    fl_ssurgo_only =>
      /\ \A i \in 1..Len(fl_files) :
            fl_files[i].path = "in/gSSURGO_" \o fl_files[i].reg \o ".gdb"
      /\ fl_pc = "done" =>
            /\ Keys(fl_files) \ FlConusKeys =
                  Range(PRODUCT.gNATSGO.NON_CONUS) \cup Range(PRODUCT.gSSURGO.NON_CONUS)
            /\ ~fl_partition => FlConusKeys = {"CONUS"}

C2_Witness ==
    /\ fl_pc = "done"
    /\ fl_ssurgo_only
    /\ ~fl_partition
    /\ DictGet(fl_files, "AK") = "in/gSSURGO_AK.gdb"
    /\ DictGet(fl_files, "CONUS") = "in/gSSURGO_CONUS.gdb"

\* C3 as stated: a ssurgo_only, partitioned table resolves exactly 43 CONUS
\* region files.
C3_FortyThreeConusFiles ==
    (fl_pc = "done" /\ fl_ssurgo_only /\ fl_partition) =>
        Cardinality(FlConusKeys) = 43

\* C3 amended: a ssurgo_only, partitioned table resolves exactly 49 CONUS
\* region files, one per CONUS state PRODUCT lists for either product (26
\* under gNATSGO and 23 under gSSURGO).
C3_FortyNineConusFiles ==
    (fl_pc = "done" /\ fl_ssurgo_only /\ fl_partition) =>
        /\ Cardinality(FlConusKeys) = 49
        /\ FlConusKeys =
              Range(PRODUCT.gNATSGO.CONUS) \cup Range(PRODUCT.gSSURGO.CONUS)
        /\ Len(PRODUCT.gNATSGO.CONUS) = 26
        /\ Len(PRODUCT.gSSURGO.CONUS) = 23

C3_Witness ==
    /\ fl_pc = "done"
    /\ fl_ssurgo_only
    /\ fl_partition
    /\ DictGet(fl_files, "NH") = "in/gSSURGO_NH.gdb"

\* C4: for a table that is not ssurgo_only, a partitioned map sends each
\* CONUS state to the file of the product whose CONUS list holds it, a map
\* that is not partitioned sends 'CONUS' to the gNATSGO bulk file, and both
\* send each territory to the file of the product whose NON_CONUS list holds it.
C4_PreferredProductFiles ==
    (fl_pc = "done" /\ ~fl_ssurgo_only) =>
      /\ fl_partition =>
            /\ FlConusKeys = ConusStates
            /\ \A p \in {"gNATSGO", "gSSURGO"} : \A st \in Range(PRODUCT[p].CONUS) :
                  DictGet(fl_files, st) = "in/" \o p \o "_" \o st \o ".gdb"
      /\ ~fl_partition =>
            /\ FlConusKeys = {"CONUS"}
            /\ DictGet(fl_files, "CONUS") = "in/gNATSGO_CONUS.gdb"
      /\ \A p \in {"gNATSGO", "gSSURGO"} : \A terr \in Range(PRODUCT[p].NON_CONUS) :
            /\ terr \in Keys(fl_files)
            /\ DictGet(fl_files, terr) = "in/" \o p \o "_" \o terr \o ".gdb"

C4_Witness ==
    /\ fl_pc = "done"
    /\ ~fl_ssurgo_only
    /\ fl_partition
    /\ DictGet(fl_files, "NH") = "in/gNATSGO_NH.gdb"
    /\ DictGet(fl_files, "WV") = "in/gSSURGO_WV.gdb"
    /\ DictGet(fl_files, "HI") = "in/gSSURGO_HI.gdb"

(***************************************************************************)
(* Claims about concat_table and what it calls, checked under Spec.        *)
(***************************************************************************)
\* The rows the files of the given regions hold for the current table, one
\* sequence per region.
RowsOfRegions(regs) ==
    [j \in 1..Len(regs) |-> GdbRows(self.table_name, regs[j], seed)]

\* Number of rows before those of the j-th sequence.
Offset(rs, j) ==
    Cardinality(UNION {{<<k, r>> : r \in 1..Len(rs[k])} : k \in 1..(j - 1)})

\* The rows of all the sequences, in order.
Flatten(rs) ==
    [n \in 1..Offset(rs, Len(rs) + 1) |->
        LET j == CHOOSE j \in 1..Len(rs) :
                    Offset(rs, j) < n /\ n <= Offset(rs, j) + Len(rs[j])
        IN rs[j][n - Offset(rs, j)]]

\* The regions read so far by the loop of the call itself.
MainReads == SelectSeq(reads, LAMBDA e : e.loop = "main")

\* The regions read so far by the pass of the pre-pass.
InnerReads == SelectSeq(reads, LAMBDA e : e.loop = "inner")

RegsOf(rd) == [k \in 1..Len(rd) |-> rd[k].reg]

FileRegs == [k \in 1..Len(self.files) |-> self.files[k].reg]

\* What the claim says a raw value of a boolean column becomes.
ExpectedBool(raw) ==
    IF raw \in {"Yes", "1  "}
    THEN PyTrue
    ELSE IF raw \in {"No", "No ", "0  "} THEN PyFalse ELSE None

\* Whether the rows of a frame hold, in each boolean column they have, what
\* the claim says of the raw rows they come from.
BooleansRemapped(frame, raw) ==
    /\ Len(frame.rows) = Len(raw)
    /\ \A c \in frame.cols :
         (c \in DOMAIN self.astype /\ self.astype[c] = StrDtype("boolean")) =>
            \A r \in 1..Len(raw) : frame.rows[r][c] = ExpectedBool(raw[r][c])

\* C5: every boolean column present in a region's rows holds true for 'Yes'
\* and '1  ', false for 'No', 'No ' and '0  ' and null for anything else, in
\* the partitions written and in the rows buffered, and no such remap raises.
C5_BooleanRemap ==
    /\ \A k \in 1..Len(writes) :
         writes[k].kind = "partition" =>
            BooleansRemapped(writes[k].frame,
                             GdbRows(self.table_name, writes[k].reg, seed))
    /\ (pc \in {"main", "done"} /\ ~t.none) =>
          BooleansRemapped(t, Flatten(RowsOfRegions(RegsOf(MainReads))))
    /\ \A v \in Range(CellPool("majcompflag", seed)) :
          BoolMap(v) \in {PyTrue, PyFalse, None}
    /\ [k \in 1..5 |-> BoolMap(<<"Yes", "No ", "0  ", "1  ", None>>[k])]
          = <<PyTrue, PyFalse, PyFalse, PyTrue, None>>

C5_Witness ==
    /\ pc = "done"
    /\ self.table_name = "component"
    /\ out_dir = None
    /\ \E r1, r2, r3, r4 \in 1..Len(ret.rows) :
         LET raw == Flatten(RowsOfRegions(FileRegs))
         IN /\ raw[r1]["majcompflag"] = "maybe" /\ ret.rows[r1]["majcompflag"] = None
            /\ raw[r2]["majcompflag"] = "No " /\ ret.rows[r2]["majcompflag"] = PyFalse
            /\ raw[r3]["majcompflag"] = "1  " /\ ret.rows[r3]["majcompflag"] = PyTrue
            /\ raw[r4]["majcompflag"] = None /\ ret.rows[r4]["majcompflag"] = None

\* _precompute_categoricals has returned in the running call.
PrecomputeDone == passes = 1 /\ pc \in {"main", "done"}

\* C6: once _precompute_categoricals has returned, each column it found open
\* has a CategoricalDtype whose categories hold every non-null value the
\* column takes in every region file of the table, and do not hold null.
C6_DomainCoversAllRegions ==
    PrecomputeDone =>
      \A c \in open_cols :
         /\ self.astype[c].kind = "CategoricalDtype"
         /\ None \notin Range(self.astype[c].cats)
         /\ \A k \in 1..Len(self.files) :
              \A row \in Range(GdbRows(self.table_name, self.files[k].reg, seed)) :
                 row[c] # None => row[c] \in Range(self.astype[c].cats)

C6_Witness ==
    /\ PrecomputeDone
    /\ "hzname" \in open_cols
    /\ {"A", "Bt", "C"} \subseteq Range(self.astype["hzname"].cats)
    /\ \E k \in 1..Len(self.files) :
         \E row \in Range(GdbRows(self.table_name, self.files[k].reg, seed)) :
            row["hzname"] = None

\* No type of the dict is the open placeholder, the str 'category'.
NoOpenCategory(astype) ==
    \A k \in DOMAIN astype :
       ~(astype[k].kind = "str" /\ astype[k].name = "category")

\* C7 as stated: whenever a partition of a partitioned table is written,
\* the pass over all region files has run exactly once, it has read every
\* file before the first write, and no type is still the open placeholder.
C7_PassRunsExactlyOnce ==
    (self.partition /\ writes # <<>>) =>
       /\ passes = 1
       /\ InnerReads = [k \in 1..Len(self.files) |-> [loop |-> "inner", reg |-> FileRegs[k]]]
       /\ \A k \in 1..Len(writes) : NoOpenCategory(writes[k].astype)

\* C7 amended: the pass over all region files runs at most once per call:
\* exactly once when the table has an open categorical column as the call
\* starts, and not at all otherwise. When it runs it reads every region file,
\* in map order, before the first partition is written, and no partition is
\* ever written while a type is still the open placeholder.
C7_PassOnceBeforeWrites ==
    /\ passes <= 1
    /\ Len(InnerReads) <= Len(self.files)
    /\ \A k \in 1..Len(InnerReads) : InnerReads[k].reg = FileRegs[k]
    /\ reads = InnerReads \o MainReads
    /\ (self.partition /\ out_dir # None /\ pc \in {"inner", "main", "done"}) =>
          passes = (IF open_cols # {} THEN 1 ELSE 0)
    /\ (self.partition /\ writes # <<>>) =>
          /\ Len(InnerReads) = passes * Len(self.files)
          /\ \A k \in 1..Len(writes) : NoOpenCategory(writes[k].astype)

C7_Witness ==
    /\ self.partition
    /\ Len(writes) = 2
    /\ passes = 1
    /\ Len(InnerReads) = Len(self.files)
    /\ "hzname" \in open_cols

\* The schema of a Table that has built one: the table description where
\* there is one, and for each column its metadata where it has some.
SchemaCarriesMetadata ==
    self.schema.set =>
      /\ self.description # None =>
            self.schema.metadata = [k \in {"description"} |-> self.description]
      /\ \A c \in DOMAIN self.schema.fields :
            (c \in DOMAIN self.columns /\ DOMAIN self.columns[c].meta # {}) =>
               self.schema.fields[c].meta = self.columns[c].meta

\* C8: a Table builds its schema, with the table description and the column
\* metadata, exactly once: the first call of _schema fixes it, and every
\* later call on that Table returns it unchanged, whatever frame it is given.
C8_SchemaBuiltOnce ==
    /\ [](/\ nschema = (IF self.schema.set THEN 1 ELSE 0)
          /\ SchemaCarriesMetadata
          /\ \A k \in 1..Len(writes) : writes[k].schema = self.schema)
    /\ [][(self.schema.set /\ ntables' = ntables) =>
             (self'.schema = self.schema /\ nschema' = nschema)]_vars

C8_Witness ==
    /\ Len(writes) >= 2
    /\ writes[1].frame # writes[2].frame
    /\ writes[1].schema = writes[2].schema
    /\ nschema = 1
    /\ self.schema.metadata = [k \in {"description"} |-> "table chorizon"]
    /\ self.schema.fields["hzdept_r"].meta["units"] = "centimeters"

\* The partition writes of a partitioned table, one per region read, in
\* map order, with nothing buffered; col is the column that carries the
\* region code.
PartitionWritesCarry(col) ==
    /\ Len(writes) = Len(MainReads)
    /\ t.none
    /\ \A k \in 1..Len(writes) :
         /\ writes[k].kind = "partition"
         /\ writes[k].reg = FileRegs[k]
         /\ MainReads[k].reg = FileRegs[k]
         /\ col \in writes[k].frame.cols
         /\ Len(writes[k].frame.rows) =
               Len(GdbRows(self.table_name, FileRegs[k], seed))
         /\ \A r \in 1..Len(writes[k].frame.rows) :
               /\ col \in DOMAIN writes[k].frame.rows[r]
               /\ writes[k].frame.rows[r][col] = FileRegs[k]
         /\ col \in DOMAIN writes[k].frame.dtypes
         /\ writes[k].frame.dtypes[col] = "category"

C10_SingleWriteOfConcatenation ==
    (~self.partition /\ out_dir # None) =>
       /\ pc = "main" => (writes = <<>> /\ ncoerce = 0)
       /\ pc = "done" =>
            /\ RegsOf(reads) = FileRegs
            /\ ncoerce = 1
            /\ Len(writes) = 1
            /\ writes[1].kind = "single"
            /\ writes[1].frame =
                 Astype(RemapBooleans(self.astype,
                           [none |-> FALSE,
                            cols |-> DOMAIN self.columns,
                            dtypes |-> [c \in DOMAIN self.columns |-> "object"],
                            rows |-> Flatten(RowsOfRegions(FileRegs))]),
                        self.astype)

C10_Witness ==
    /\ ~self.partition
    /\ out_dir # None
    /\ pc = "done"
    /\ Len(writes) = 1
    /\ Len(writes[1].frame.rows) >= 5
    /\ Len(reads) = 10

\* The frame of the raw rows of all regions of the map, in map order, with
\* the boolean columns remapped and no type converted.
ConcatenationOfRegions ==
    RemapBooleans(self.astype,
       [none |-> FALSE,
        cols |-> DOMAIN self.columns,
        dtypes |-> [c \in DOMAIN self.columns |-> "object"],
        rows |-> Flatten(RowsOfRegions(FileRegs))])

\* C11: a concat_table call without out_dir writes nothing, converts nothing
\* and runs no categorical pre-pass, and returns the concatenation of the rows
\* of all regions of the map, for a partitioned table as for one that is not;
\* a call with an out_dir returns nothing (None). The call the pre-pass makes
\* has no out_dir either: while it runs nothing is written or converted and
\* no second pass starts.
C11_ReturnsFrameOnlyWithoutOutDir ==
    /\ (out_dir = None /\ pc \in {"main", "done", "raised"}) =>
          /\ writes = <<>>
          /\ passes = 0
          /\ ncoerce = 0
          /\ InnerReads = <<>>
    /\ (out_dir = None /\ pc = "done") =>
          /\ ~ret.none
          /\ ret = ConcatenationOfRegions
          /\ RegsOf(reads) = FileRegs
    /\ (out_dir # None /\ pc = "done") => ret = NoFrame
    /\ pc = "inner" => (writes = <<>> /\ ncoerce = 0 /\ passes = 1)

C11_Witness ==
    /\ pc = "done"
    /\ out_dir = None
    /\ self.partition
    /\ Len(self.files) = 58
    /\ Len(ret.rows) >= 50
    /\ "state" \notin ret.cols

\* C18 as stated: whatever Table objects are constructed and whatever
\* concat_table calls run on them, TABLES equals its initial value, the
\* 'astype' dict of every table included. (PRODUCT is only ever read: the
\* lists built from it are new ones.)
C18_ConfigNeverMutated == TABLES = TABLES_initial

\* The state C18 fails in: a Table made for an entry that has an 'astype'
\* dict has written its own column types into that dict.
C18_AstypeSharedWithTABLES ==
    /\ self.table_name = "component"
    /\ pc = "ready"
    /\ TABLES_initial["component"].astype = MapSet(EmptyMap, "mukey", PyInt)
    /\ TABLES["component"].astype = self.astype
    /\ "comppct_r" \in DOMAIN TABLES["component"].astype
    /\ TABLES["component"].astype["comppct_r"] = StrDtype("Int16")
\* C19: every Table construction leaves a column that is already a key of
\* the astype dict it starts from (an override) with the type it has there;
\* of the other columns, one whose field type is Integer gets 'Int16' when
\* its subtype is 2 (a small integer) and 'Int32' otherwise, and one whose
\* field type is Real gets 'float32'.
C19_OverridesKeptNumericInferred ==
    [][(ntables' # ntables) =>
          LET name == self'.table_name
              astype0 == IF TABLES[name].has_astype THEN TABLES[name].astype ELSE EmptyMap
          IN \A f \in Range(LayerDefn(name)) :
                /\ f.name \in DOMAIN astype0 => self'.astype[f.name] = astype0[f.name]
                /\ (f.name \notin DOMAIN astype0 /\ f.type = "Integer") =>
                      self'.astype[f.name] =
                         (IF f.subtype = 2 THEN StrDtype("Int16") ELSE StrDtype("Int32"))
                /\ (f.name \notin DOMAIN astype0 /\ f.type = "Real") =>
                      self'.astype[f.name] = StrDtype("float32")]_vars

C19_Witness ==
    /\ pc = "ready"
    /\ ntables = 1
    /\ self.table_name = "valu1"
    /\ self.astype["mukey"] = PyInt
    /\ self.astype["aws0_5"] = StrDtype("float32")
    /\ self.astype["pctearthmc"] = StrDtype("Int32")
(***************************************************************************)
(* Claims about create_tiles, tile_image, Tile.subset and tile, checked    *)
(* under SpecTile.                                                         *)
(***************************************************************************)
\* A tile_image call has opened its dataset and has its tiles.
TlOpened == tl_call >= 1

\* The step of the grid, in coordinates.
TlStep == Unit * tl_size

\* ceil(a / b) for positive b
CeilDiv(a, b) == (a + b - 1) \div b

\* Columns and rows of the grid the claim describes.
GridCols == CeilDiv(TlDataset.right - TlDataset.left, TlStep)

GridRows == CeilDiv(TlDataset.top - TlDataset.bottom, TlStep)

\* The tile in column i, row j of the grid (from 0), columns first.
GridTile(i, j) == tl_tiles[i * GridRows + j + 1]

TileWithin(tile, ds) ==
    /\ ds.left <= tile._left /\ tile._left < tile._right /\ tile._right <= ds.right
    /\ ds.bottom <= tile._bottom /\ tile._bottom < tile._top /\ tile._top <= ds.top

InteriorsDisjoint(a, b) ==
    \/ a._right <= b._left
    \/ b._right <= a._left
    \/ a._top <= b._bottom
    \/ b._top <= a._bottom

\* C12: every tile create_tiles returns lies within the bounding box, any two
\* distinct tiles have disjoint interiors, and two tiles next to each other in
\* the grid share exactly one boundary coordinate: the right edge of the one
\* is the left edge of the other (or its top the other's bottom), over the
\* same extent in the other axis.
C12_TilesWithinDisjointAdjacent ==
    TlOpened =>
      /\ \A k \in 1..Len(tl_tiles) : TileWithin(tl_tiles[k], TlDataset)
      /\ \A k, m \in 1..Len(tl_tiles) :
            k # m => /\ tl_tiles[k] # tl_tiles[m]
                     /\ InteriorsDisjoint(tl_tiles[k], tl_tiles[m])
      /\ Len(tl_tiles) = GridCols * GridRows
      /\ \A i \in 0..(GridCols - 2) : \A j \in 0..(GridRows - 1) :
            /\ GridTile(i, j)._right = GridTile(i + 1, j)._left
            /\ GridTile(i, j)._bottom = GridTile(i + 1, j)._bottom
            /\ GridTile(i, j)._top = GridTile(i + 1, j)._top
      /\ \A i \in 0..(GridCols - 1) : \A j \in 0..(GridRows - 2) :
            /\ GridTile(i, j)._top = GridTile(i, j + 1)._bottom
            /\ GridTile(i, j)._left = GridTile(i, j + 1)._left
            /\ GridTile(i, j)._right = GridTile(i, j + 1)._right

C12_Witness ==
    /\ TlOpened
    /\ Len(tl_tiles) = 4
    /\ tl_box.left < 0
    /\ tl_size = 2
    /\ tl_tiles[1]._right = tl_tiles[3]._left
    /\ tl_tiles[1]._top = tl_tiles[2]._bottom
    /\ tl_tiles[4]._right - tl_tiles[4]._left < TlStep
    /\ tl_tiles[4]._right = TlDataset.right

\* C13: create_tiles returns ceil((right-left)/size) * ceil((top-bottom)/size)
\* tiles, column after column from (left, bottom), each row of a column one
\* size above the last; a tile is size x size unless it is in the last column
\* or row, where it ends at right or top; and every part of the bounding box
\* lies in some tile.
C13_GridOfClippedTiles ==
    TlOpened =>
      /\ Len(tl_tiles) = GridCols * GridRows
      /\ \A i \in 0..(GridCols - 1) : \A j \in 0..(GridRows - 1) :
            /\ GridTile(i, j)._left = TlDataset.left + i * TlStep
            /\ GridTile(i, j)._bottom = TlDataset.bottom + j * TlStep
            /\ GridTile(i, j)._right =
                  (IF i = GridCols - 1 THEN TlDataset.right
                                       ELSE GridTile(i, j)._left + TlStep)
            /\ GridTile(i, j)._top =
                  (IF j = GridRows - 1 THEN TlDataset.top
                                       ELSE GridTile(i, j)._bottom + TlStep)
            /\ GridTile(i, j)._right - GridTile(i, j)._left <= TlStep
            /\ GridTile(i, j)._top - GridTile(i, j)._bottom <= TlStep
      /\ \A x \in TlDataset.left..(TlDataset.right - 1) :
         \A y \in TlDataset.bottom..(TlDataset.top - 1) :
            \E k \in 1..Len(tl_tiles) :
               /\ tl_tiles[k]._left <= x /\ x + 1 <= tl_tiles[k]._right
               /\ tl_tiles[k]._bottom <= y /\ y + 1 <= tl_tiles[k]._top

C13_Witness ==
    /\ TlOpened
    /\ tl_box.width = 3
    /\ tl_box.height = 3
    /\ tl_size = 2
    /\ Len(tl_tiles) = 4
    /\ tl_tiles[1]._right - tl_tiles[1]._left = 2 * Unit
    /\ tl_tiles[4]._right - tl_tiles[4]._left = Unit
    /\ tl_tiles[4]._top - tl_tiles[4]._bottom = Unit

\* Whether pixel p of a dataset lies within a tile, by its ground extent.
PixelInTile(ds, p, tile) ==
    /\ tile._left <= ds.left + Unit * p[1]
    /\ ds.left + Unit * (p[1] + 1) <= tile._right
    /\ tile._bottom <= ds.top - Unit * (p[2] + 1)
    /\ ds.top - Unit * p[2] <= tile._top

\* At least one pixel within the tile differs from the nodata value.
HasData(ds, tile) ==
    \E p \in DOMAIN ds.pixels : PixelInTile(ds, p, tile) /\ ds.pixels[p] # ds.nodata

\* The tiles the running tile_image call has gone through.
TilesVisited == SubSeq(tl_tiles, 1, tl_pos - 1)

\* C14: tile_image writes a raster for a tile if and only if some pixel of
\* its window differs from nodata: the rasters written so far are those of the
\* tiles visited that hold data, in order and each in a file of its own; a
\* tile without data is passed over, and the call goes on to its last tile.
C14_OutputIffNotAllNodata ==
    TlOpened =>
      LET nonempty == SelectSeq(TilesVisited, LAMBDA tile : HasData(TlDataset, tile))
      IN /\ Len(tl_out) = Len(nonempty)
         /\ \A k \in 1..Len(tl_out) :
               /\ tl_out[k].projwin = <<nonempty[k]._left, nonempty[k]._top,
                                        nonempty[k]._right, nonempty[k]._bottom>>
               /\ \E p \in DOMAIN tl_out[k].data : tl_out[k].data[p] # TlDataset.nodata
         /\ Cardinality({tl_out[k].outfile : k \in 1..Len(tl_out)}) = Len(nonempty)
         /\ tl_pc \in {"tile", "done"} => tl_pos = Len(tl_tiles) + 1

C14_Witness ==
    /\ tl_pc = "tile"
    /\ Len(tl_tiles) = 9
    /\ Len(tl_out) = 3
    /\ \E k \in 1..8 : /\ ~HasData(TlDataset, tl_tiles[k])
                       /\ HasData(TlDataset, tl_tiles[k + 1])

\* C15: with a size larger than the extent of the raster in both axes there
\* is exactly one tile, the whole raster; when every pixel holds data (the
\* value 5, nodata -1) tile_image writes one raster, with every pixel of the
\* source; and a raster that is all nodata gives no output, whatever the size.
C15_OneTileForSmallRaster ==
    TlOpened =>
      /\ (tl_size > tl_box.width /\ tl_size > tl_box.height) =>
            /\ tl_tiles = << [_left |-> TlDataset.left, _bottom |-> TlDataset.bottom,
                              _right |-> TlDataset.right, _top |-> TlDataset.top] >>
            /\ (tl_pos > 1 /\ \A p \in DOMAIN TlDataset.pixels : TlDataset.pixels[p] = 5) =>
                  /\ Len(tl_out) = 1
                  /\ tl_out[1].data = TlDataset.pixels
      /\ (\A p \in DOMAIN TlDataset.pixels : TlDataset.pixels[p] = TlDataset.nodata) =>
            tl_out = <<>>

C15_Witness ==
    /\ tl_pc \in {"tile", "done"}
    /\ tl_call >= 2
    /\ tl_size = 3
    /\ tl_box.width = 2
    /\ tl_box.height = 2
    /\ TlDataset.nodata = 0 - 1
    /\ Len(tl_out) = 1
    /\ tl_out[1].data = [p \in {0, 1} \X {0, 1} |-> 5]

\* The name the claim gives: {base}_{left}_{top}_{right}_{bottom}, the
\* numbers being the bounds as integers.
BoundsName(base, left, top, right, bottom) ==
    base \o "_" \o PyStr(PyIntTrunc(left)) \o "_" \o PyStr(PyIntTrunc(top))
         \o "_" \o PyStr(PyIntTrunc(right)) \o "_" \o PyStr(PyIntTrunc(bottom))

\* C16 as stated: the raster written for a tile is named
\* {base}_{left}_{top}_{right}_{bottom}.tif.
C16_NamedByBounds ==
    \A k \in 1..Len(tl_out) :
       tl_out[k].name =
          BoundsName(tl_log[tl_call].base, tl_out[k].projwin[1], tl_out[k].projwin[2],
                     tl_out[k].projwin[3], tl_out[k].projwin[4]) \o ".tif"

\* C16 amended: the raster written for a tile is the file
\* mukey_{tile_id}.tif in the directory {outdir}/{tile_id}, where tile_id is
\* {base}_{left}_{top}_{right}_{bottom}, the numbers being the bounds of the
\* tile with their fraction dropped; the path depends on outdir, the base and
\* the bounds alone.
C16_NamedMukeyTileId ==
    \A k \in 1..Len(tl_out) :
       LET tile_id == BoundsName(tl_log[tl_call].base,
                                 tl_out[k].projwin[1], tl_out[k].projwin[2],
                                 tl_out[k].projwin[3], tl_out[k].projwin[4])
       IN /\ tl_out[k].name = "mukey_" \o tile_id \o ".tif"
          /\ tl_out[k].dir = "tiles/" \o tile_id
          /\ tl_out[k].outfile = "tiles/" \o tile_id \o "/mukey_" \o tile_id \o ".tif"
          /\ \E m \in 1..Len(tl_tiles) :
                tl_out[k].projwin = <<tl_tiles[m]._left, tl_tiles[m]._top,
                                      tl_tiles[m]._right, tl_tiles[m]._bottom>>

C16_Witness ==
    /\ tl_call = 1
    /\ Len(tl_out) = 1
    /\ tl_out[1].projwin = <<0 - 3, 5, 1, 1>>
    /\ tl_out[1].outfile = "tiles/ak_-1_2_0_0/mukey_ak_-1_2_0_0.tif"

\* What the claim says tile does: each non-CONUS region on its own, from the
\* file of the product that lists it, with the lower-cased code as base...
ExpectedNonConus ==
    << [infile |-> "in/gNATSGO_AK.tif", base |-> "ak"],
       [infile |-> "in/gNATSGO_PRUSVI.tif", base |-> "prusvi"],
       [infile |-> "in/gSSURGO_AS.tif", base |-> "as"],
       [infile |-> "in/gSSURGO_FM.tif", base |-> "fm"],
       [infile |-> "in/gSSURGO_GU.tif", base |-> "gu"],
       [infile |-> "in/gSSURGO_HI.tif", base |-> "hi"],
       [infile |-> "in/gSSURGO_MH.tif", base |-> "mh"],
       [infile |-> "in/gSSURGO_MP.tif", base |-> "mp"],
       [infile |-> "in/gSSURGO_PW.tif", base |-> "pw"] >>

\* ... and then the mosaic of the rasters of all CONUS states.
ExpectedMosaicSources ==
    {"in/" \o p \o "_" \o st \o ".tif" :
        p \in {"gNATSGO"}, st \in Range(PRODUCT.gNATSGO.CONUS)}
    \cup {"in/" \o p \o "_" \o st \o ".tif" :
        p \in {"gSSURGO"}, st \in Range(PRODUCT.gSSURGO.CONUS)}

\* C17: tile makes its tile_image calls in this order: one per non-CONUS
\* region, on the single raster of the product that lists the region, with the
\* lower-cased region code as base; then one on the mosaic built from the
\* rasters of the 49 CONUS states of both products, with base "conus". No
\* CONUS state is tiled on its own and no non-CONUS raster is in the mosaic.
C17_NonConusEachThenMosaic ==
    /\ Len(tl_log) = tl_call
    /\ Len(tl_log) <= Len(ExpectedNonConus) + 1
    /\ \A k \in 1..Len(tl_log) :
          /\ tl_log[k].size = tl_size
          /\ IF k <= Len(ExpectedNonConus)
             THEN /\ tl_log[k].infile = ExpectedNonConus[k].infile
                  /\ tl_log[k].base = ExpectedNonConus[k].base
                  /\ tl_log[k].sources = <<ExpectedNonConus[k].infile>>
             ELSE /\ tl_log[k].base = "conus"
                  /\ tl_log[k].infile \notin ExpectedMosaicSources
                  /\ Range(tl_log[k].sources) = ExpectedMosaicSources
                  /\ Len(tl_log[k].sources) = 49
    /\ tl_pc = "done" => Len(tl_log) = Len(ExpectedNonConus) + 1
    /\ Cardinality({ExpectedNonConus[k].infile : k \in 1..9}) = Cardinality(NonConusRegions)

C17_Witness ==
    /\ tl_pc = "done"
    /\ Len(tl_log) = 10
    /\ tl_log[2].base = "prusvi"
    /\ tl_log[10].base = "conus"
    /\ "in/gSSURGO_WV.tif" \in Range(tl_log[10].sources)

(***************************************************************************)
(* Claims about stac.create_item, checked under SpecItem.                  *)
(***************************************************************************)
\* The first href has the extension .parquet.
FirstIsParquet == splitext(basename(it_arg.hrefs[1]))[2] = <<".", "parquet">>

\* The file stem of the first href.
FirstStem == splitext(basename(it_arg.hrefs[1]))[1]

HasUnderscore(s) == \E k \in 1..Len(s) : s[k] = "_"

\* What follows the first '_' of s.
AfterFirstUnderscore(s) ==
    LET k == CHOOSE k \in 1..Len(s) : s[k] = "_" /\ \A m \in 1..(k - 1) : s[m] # "_"
    IN Text([m \in 1..(Len(s) - k) |-> s[k + m]])

\* create_item has raised without a call of a function that builds an item.
RaisedAtOnce == it_pc = "raised" /\ it_item = NoItem /\ it_id = FirstStem

\* C20 as stated: with a .parquet first href and more than one href
\* create_item raises before it builds any item; with exactly one .parquet
\* href it builds a table item; with any other first href it builds a tile
\* item whose id is what follows the first underscore of the file stem.
C20_RaisesOnlyForManyTables ==
    it_pc # "call" =>
      /\ (FirstIsParquet /\ Len(it_arg.hrefs) > 1) => RaisedAtOnce
      /\ (FirstIsParquet /\ Len(it_arg.hrefs) = 1) =>
            /\ it_pc \in {"parquet", "returned"}
            /\ it_pc = "returned" => it_item.kind = "table"
      /\ ~FirstIsParquet =>
            /\ it_pc \in {"tile", "returned"}
            /\ it_pc = "returned" =>
                  /\ it_item.kind = "tile"
                  /\ it_item.id = AfterFirstUnderscore(FirstStem)

\* C20 amended: with a .parquet first href and more than one href
\* create_item raises before it builds any item; with exactly one .parquet
\* href it builds a table item, whose id is the file stem. With any other
\* first href it raises before it builds any item when the file stem has no
\* underscore; otherwise it builds a tile item whose id is what follows the
\* first underscore of the stem, with one asset per href, and this raises too
\* when the basename of a further href has no underscore.
C20_RaisesForManyTablesOrNoUnderscore ==
    it_pc # "call" =>
      /\ (FirstIsParquet /\ Len(it_arg.hrefs) > 1) => RaisedAtOnce
      /\ (FirstIsParquet /\ Len(it_arg.hrefs) = 1) =>
            /\ it_pc \in {"parquet", "returned"}
            /\ it_pc = "returned" =>
                  /\ it_item.kind = "table"
                  /\ it_item.id = Text(FirstStem)
                  /\ Len(it_item.assets) = 1
      /\ (~FirstIsParquet /\ ~HasUnderscore(FirstStem)) => RaisedAtOnce
      /\ (~FirstIsParquet /\ HasUnderscore(FirstStem)) =>
            /\ it_pc \in {"tile", "returned", "raised"}
            /\ Text(it_id) = AfterFirstUnderscore(FirstStem)
            /\ it_pc = "returned" =>
                  /\ it_item.kind = "tile"
                  /\ it_item.id = AfterFirstUnderscore(FirstStem)
                  /\ Len(it_item.assets) = Len(it_arg.hrefs)
            /\ it_pc = "raised" =>
                  /\ it_item = NoItem
                  /\ \E k \in 2..Len(it_arg.hrefs) : ~HasUnderscore(basename(it_arg.hrefs[k]))
      /\ it_arg.is_str => Len(it_arg.hrefs) = 1

C20_Witness ==
    /\ it_arg.hrefs = << <<"ak", ".", "parquet">>, <<"ak", "_", "ak", ".", "ak">> >>
    /\ ~it_arg.is_str
    /\ it_pc = "raised"
    /\ it_item = NoItem


\* C21 as stated: a concat_table call that has raised, for a missing file or
\* a failed type conversion, has written nothing of its table: no partition
\* and no dataset.
C21_NothingWrittenWhenFailed == pc = "raised" => writes = <<>>

\* The state C21 fails in: the loop of a partitioned table has written the
\* partitions of the regions before a region whose file is missing, each in
\* its own to_parquet call, and the call has raised at that region.
C21_PartitionsLeftBehind ==
    /\ pc = "raised"
    /\ self.partition
    /\ out_dir # None
    /\ reg_pos <= Len(self.files)
    /\ self.files[reg_pos].path \in missing
    /\ Len(writes) = reg_pos - 1
    /\ Len(writes) >= 50
    /\ \A k \in 1..Len(writes) :
         writes[k].kind = "partition" /\ writes[k].reg = self.files[k].reg


\* The path is one of those that do not exist under in_dir.
IsMissing(path) == path \in missing

\* The reads of the loop that runs, or ran last, in the call.
LoopReads == IF MainReads # <<>> \/ pc = "main" THEN MainReads ELSE InnerReads

\* What C22 says of the loops: only files that exist are read, each under
\* its own region and in map order, no region is read or written from the
\* first missing one on, and a loop that reaches a missing file raises there
\* and then, reading and writing nothing more.
MissingFatalInLoop ==
    /\ [](/\ \A k \in 1..Len(reads) :
               ~IsMissing(DictGet(self.files, reads[k].reg))
          /\ \A k \in 1..Len(InnerReads) : InnerReads[k].reg = FileRegs[k]
          /\ \A k \in 1..Len(MainReads) : MainReads[k].reg = FileRegs[k]
          /\ \A k \in 1..Len(writes) :
               writes[k].kind = "partition" =>
                  \A j \in 1..k : ~IsMissing(self.files[j].path)
          /\ \A k \in 1..Len(writes) :
               writes[k].kind = "single" =>
                  \A j \in 1..Len(self.files) : ~IsMissing(self.files[j].path)
          /\ (pc \in {"inner", "main"} /\ reg_pos <= Len(self.files)) =>
                Len(LoopReads) = reg_pos - 1)
    /\ [][(/\ pc \in {"inner", "main"}
           /\ reg_pos <= Len(self.files)
           /\ IsMissing(self.files[reg_pos].path))
            => (pc' = "raised" /\ reads' = reads /\ writes' = writes)]_vars

\* C22 as stated: a missing file is fatal in the loop as above, and nothing
\* looks for the files before a loop: an error is only ever raised while a
\* loop of concat_table runs.
C22_MissingFatalOnlyInLoop ==
    /\ MissingFatalInLoop
    /\ [][(pc' \in {"raised", "failed"} /\ pc' # pc) => pc \in {"inner", "main"}]_vars

\* C22 amended: a missing file is fatal in the loop as above, and no file
\* but the one of AK is opened before a loop: Table(...) opens self.files['AK']
\* and raises where it is missing, so that a Table exists only where its AK
\* file does, and an error raised outside the loops is that of a constructor,
\* which leaves no new Table.
C22_MissingFatalInLoopOrConstructor ==
    /\ MissingFatalInLoop
    /\ [](self # NoTable => ~IsMissing(DictGet(self.files, "AK")))
    /\ [](pc = "failed" => \E table_name \in TableNames :
             IsMissing(DictGet(_file_list(TABLES[table_name].ssurgo_only,
                                          TABLES[table_name].partition), "AK")))
    /\ [][pc' = "raised" => pc \in {"inner", "main", "raised"}]_vars
    /\ [][pc' = "failed" =>
             (pc \notin {"inner", "main"} /\ self' = self /\ ntables' = ntables)]_vars

\* The pre-pass of a partitioned table has read fifty and more regions, found
\* the file of the next one missing and raised, before anything is written.
C22_Witness ==
    /\ pc = "raised"
    /\ self.table_name = "chorizon"
    /\ reg_pos <= Len(self.files)
    /\ IsMissing(self.files[reg_pos].path)
    /\ self.files[reg_pos].reg = "GU"
    /\ Len(reads) = reg_pos - 1
    /\ Len(reads) >= 50
    /\ \A k \in 1..Len(reads) : reads[k].loop = "inner"
    /\ writes = <<>>


\* create_collection, for one table name: the entry of table:tables made
\* from the schema read back, s.metadata[b'description'] raising a KeyError
\* for a schema without that key.
table_tables_entry(table_name, schema) ==
    IF "description" \in DOMAIN schema.metadata
    THEN [raised |-> FALSE, name |-> table_name,
          description |-> schema.metadata["description"]]
    ELSE [raised |-> TRUE, name |-> table_name, description |-> None]

\* C24 as stated: every schema a table is written with, as to_parquet
\* constructs and converts it, carries a table-level 'description', so that
\* create_collection makes its entry for the table without raising.
C24_SchemaCarriesDescription ==
    \A k \in 1..Len(writes) :
       /\ "description" \in DOMAIN writes[k].schema.metadata
       /\ ~table_tables_entry(self.table_name, writes[k].schema).raised

\* The state C24 fails in: a table for which mdstattabs has no tabdesc is
\* converted, to the end, with a schema that has no table-level metadata.
C24_WrittenWithoutDescription ==
    /\ pc = "done"
    /\ self.table_name = "comonth"
    /\ TableDescription("comonth") = None
    /\ self.description = None
    /\ Len(writes) = Len(self.files)
    /\ \A k \in 1..Len(writes) :
         /\ writes[k].schema.set
         /\ writes[k].schema.metadata = EmptyMap
         /\ table_tables_entry("comonth", writes[k].schema).raised


\* The type of column col of a partitioned Table is a CategoricalDtype whose
\* categories are the regions of PRODUCT, each once, whatever the table and
\* whatever calls have run; every key of the region->file map is one of them,
\* and the region code of every row written is that code still, not null.
RegionDomainIsAllRegions(col) ==
    (self # NoTable /\ self.partition) =>
       /\ col \in DOMAIN self.astype
       /\ IsCategoricalDtype(self.astype[col])
       /\ Range(self.astype[col].cats) = FullRegionSet
       /\ NoDup(self.astype[col].cats)
       /\ Keys(self.files) \subseteq Range(self.astype[col].cats)
       /\ \A k \in 1..Len(writes) :
            /\ writes[k].astype[col] = self.astype[col]
            /\ \A r \in 1..Len(writes[k].frame.rows) :
                 /\ col \in DOMAIN writes[k].frame.rows[r]
                 /\ writes[k].frame.rows[r][col] = writes[k].reg
                 /\ writes[k].frame.rows[r][col] # None

TilesReversed(tiles) == [k \in 1..Len(tiles) |-> tiles[Len(tiles) + 1 - k]]

TilesRowsFirst(tiles) ==
    [k \in 1..Len(tiles) |->
        tiles[((k - 1) % GridCols) * GridRows + ((k - 1) \div GridCols) + 1]]

\* What tile_image writes for the running call when it is given the tiles
\* in the order of the list.
OutputsInOrder(tiles) ==
    tile_image_outputs(tiles, TlDataset, tl_log[tl_call].infile, tile_out_dir,
                       tl_log[tl_call].base)

\* C26: create_tiles returns its tiles by increasing left edge and, among
\* the tiles of one left edge, by increasing bottom edge; and the set of
\* rasters tile_image writes is that of the tiles with data, the same in
\* whatever order the tiles are gone through, no two of them in one file.
C26_ColumnOrderAndOrderFreeOutput ==
    TlOpened =>
      /\ \A k \in 1..(Len(tl_tiles) - 1) :
            \/ tl_tiles[k]._left < tl_tiles[k + 1]._left
            \/ /\ tl_tiles[k]._left = tl_tiles[k + 1]._left
               /\ tl_tiles[k]._bottom < tl_tiles[k + 1]._bottom
      /\ \A k, m \in 1..Len(tl_tiles) :
            k < m => tl_tiles[k]._left <= tl_tiles[m]._left
      /\ Range(tl_out) =
            {subset(tile, TlDataset, tl_log[tl_call].infile, tile_out_dir,
                    tl_log[tl_call].base) :
               tile \in {x \in Range(TilesVisited) : HasData(TlDataset, x)}}
      /\ tl_pos > Len(tl_tiles) =>
            /\ tl_out = OutputsInOrder(tl_tiles)
            /\ Range(OutputsInOrder(TilesReversed(tl_tiles))) = Range(tl_out)
            /\ Range(OutputsInOrder(TilesRowsFirst(tl_tiles))) = Range(tl_out)
            /\ \A k, m \in 1..Len(tl_out) :
                  k # m => tl_out[k].outfile # tl_out[m].outfile

C26_Witness ==
    /\ tl_pc \in {"tile", "done"}
    /\ Len(tl_tiles) = 4
    /\ Len(tl_out) >= 2
    /\ tl_tiles[1]._left = tl_tiles[2]._left
    /\ tl_tiles[1]._bottom < tl_tiles[2]._bottom
    /\ tl_tiles[2]._left < tl_tiles[3]._left
    /\ tl_tiles[3]._bottom < tl_tiles[2]._bottom
    /\ OutputsInOrder(TilesRowsFirst(tl_tiles)) # tl_out


\* C29 as stated: create_tiles returns, whatever the bounding box and
\* whatever the size, zero and negative sizes included.
C29_CreateTilesTerminates == <>(ct_pc = "done")

\* The state C29 fails in: with a size that is not positive the inner loop
\* has appended more tiles than the raster has pixels, all in the first
\* column and none above the one before, and y is still below top.
C29_StillInFirstColumn ==
    /\ ct_size <= 0
    /\ ct_pc = "body"
    /\ Len(ct_tiles) = TilesKept
    /\ TilesKept > ct_box.width * ct_box.height
    /\ ct_x = ct_box.left
    /\ ct_y <= ct_box.bottom
    /\ ct_y < CtTop
    /\ \A k \in 1..(Len(ct_tiles) - 1) : ct_tiles[k + 1]._bottom <= ct_tiles[k]._bottom


(***************************************************************************)
(* Claims about create_derived_rasters, checked under SpecDerived.         *)
(***************************************************************************)
\* Some pixel of a derived layer differs from the nodata value it was made
\* and tested with.
LayerHasData(layer) ==
    \E p \in 1..Len(layer.d) : layer.d[p] # layer.profile.nodata

\* The position of a column among valu1.columns.
ColumnIndex(col) == CHOOSE k \in 1..Len(dr_cols) : dr_cols[k] = col

\* C23: a derived layer whose every pixel equals the nodata value is not
\* written and its path is not returned, and the call goes on with the next
\* column: an error is raised for an unsupported column type alone. Every
\* other layer is written, and cogs_produced holds the paths of the layers
\* written in the order of the files and, within a file, of the columns.
C23_AllNodataSkippedOthersListed ==
    /\ \A k \in 1..Len(dr_layers) : dr_layers[k].written <=> LayerHasData(dr_layers[k])
    /\ LET kept == SelectSeq(dr_layers, LayerHasData)
       IN dr_cogs = [k \in 1..Len(kept) |-> kept[k].out_file]
    /\ \A k, m \in 1..Len(dr_layers) :
          k < m => \/ dr_layers[k].file < dr_layers[m].file
                   \/ /\ dr_layers[k].file = dr_layers[m].file
                      /\ ColumnIndex(dr_layers[k].col) < ColumnIndex(dr_layers[m].col)
    /\ dr_pc = "raised" =>
          /\ dr_col <= Len(dr_cols)
          /\ dr_valu1[dr_cols[dr_col]].dtype \notin {"Int16", "float32"}
    /\ dr_pc = "returned" => Len(dr_layers) = Len(dr_files) * Len(dr_cols)

C23_Witness ==
    /\ dr_pc = "returned"
    /\ Len(dr_files) = 2
    /\ Len(dr_layers) = 4
    /\ Len(dr_cogs) = 3
    /\ ~dr_layers[1].written
    /\ \A p \in 1..2 : dr_layers[1].d[p] = dr_layers[1].profile.nodata
    /\ dr_layers[2].written
    /\ dr_cogs[1] = dr_layers[2].out_file
    /\ dr_cogs[3] = "cogs/aws0-20_ak_0.tif"

\* C27 as stated: whatever files came before in the call, a column is
\* classified as it is for the first file, that is by the dtype it has in
\* the table read; so the call raises only where a column of the table is
\* of an unsupported type, and a single file would raise too.
C27_ClassifiedAlikeForLaterFiles ==
    /\ \A k \in 1..Len(dr_layers) :
          dr_layers[k].kind = Classify(Valu1Table[dr_layers[k].col].dtype)
    /\ dr_pc = "raised" =>
          \E c \in Range(dr_cols) : Classify(Valu1Table[c].dtype) = "unsupported"

\* The state C27 fails in: the first file is done, with the layer of an
\* Int16 column among those computed, and the call has raised at that same
\* column for the second file, every column of the table being Int16 or
\* float32.
C27_SecondFileRaises ==
    /\ dr_pc = "raised"
    /\ dr_file = 2
    /\ \A c \in Range(dr_cols) : Valu1Table[c].dtype \in {"Int16", "float32"}
    /\ Valu1Table[dr_cols[dr_col]].dtype = "Int16"
    /\ dr_valu1[dr_cols[dr_col]].dtype = "int16"
    /\ Classify(dr_valu1[dr_cols[dr_col]].dtype) = "unsupported"
    /\ \E k \in 1..Len(dr_layers) :
          /\ dr_layers[k].file = 1
          /\ dr_layers[k].col = dr_cols[dr_col]
          /\ dr_layers[k].kind = "int16"

\* C28 as stated: the nodata value a float32 column's layer is filled and
\* tested with is the one it has when no Int16 column comes before it, the
\* nodata of the file's own profile, wherever the column stands.
C28_FloatNodataFreeOfPosition ==
    \A k \in 1..Len(dr_layers) :
       dr_layers[k].kind = "float32" =>
          /\ dr_layers[k].profile.nodata = MukeyProfile.nodata
          /\ \A m \in 1..Len(dr_layers) :
                (dr_layers[m].kind = "float32" /\ dr_layers[m].file = dr_layers[k].file) =>
                   dr_layers[m].profile.nodata = dr_layers[k].profile.nodata

\* The state C28 fails in: for one file, a float32 column before the Int16
\* column has the nodata of the file, and a float32 column after it has
\* -9999, with which its layer is filled.
C28_NodataLeaked ==
    /\ Len(dr_layers) = 3
    /\ dr_layers[1].file = dr_layers[3].file
    /\ dr_layers[1].kind = "float32"
    /\ dr_layers[2].kind = "int16"
    /\ dr_layers[3].kind = "float32"
    /\ dr_layers[1].profile.nodata = MukeyProfile.nodata
    /\ dr_layers[3].profile.nodata = IntFill
    /\ IntFill # MukeyProfile.nodata
    /\ \E p \in 1..2 : dr_layers[3].d[p] = IntFill

====
